---- MODULE Spec2Model ----
(***************************************************************************)
(* Track-metadata detectors and pit-stop strategy simulator of the Toyota  *)
(* GR Cup dashboard.                                                       *)
(*                                                                         *)
(*   CornerSpec   : CornerDetector.detect_corners                          *)
(*   BrakingSpec  : BrakingPointDetector.detect_braking_points             *)
(*   StrategySpec : the pit-stop optimizer page (clean_laps,               *)
(*                  estimate_pit_loss, fit_degradation, simulate, best)    *)
(*   ScenarioSpec : utils.pit_stop_optimizer.build_pit_scenarios           *)
(*   SectorSpec   : SectorDetector.detect_sectors                          *)
(*   DetectorSpec : one call of either track detector                      *)
(*   SimulateSpec : simulate and the best row, on drawn arguments          *)
(*   RerunSpec    : detect_corners called twice on the same frame          *)
(*   BuilderSpec  : TrackConfigBuilder.build                               *)
(*   WorkerSpec   : two tracks processed by interleaved invocations        *)
(*   LoaderSpec   : _load_track_telemetry of either track detector         *)
(*                                                                         *)
(* Units.  Floating-point quantities are kept exact as scaled integers:    *)
(*   lateral / longitudinal g  : hundredths of a g   (0.15 g = 15)         *)
(*   lap times, pit times      : hundredths of a s   (90.0 s = 9000)       *)
(*   degradation model (a, b)  : a = an / d, b = bn / d per lap, same unit *)
(* Row indices are the 0-based positions of the source (df.iloc[i]).       *)
(***************************************************************************)
EXTENDS Integers, Sequences, FiniteSets, TLC

VARIABLES
    \* ---- CornerDetector.detect_corners
    pc,            \* position in detect_corners: "start", "loop", "done"
    load,          \* outcome of _load_track_telemetry
    df,            \* the aligned frame (rows sorted by timestamp)
    min_segment,   \* parameter of detect_corners
    i,             \* loop index of `for i in range(len(df))`
    in_corner,     \* state flag: FALSE = Outside, TRUE = InCorner
    start_idx,     \* index at which the open interval started
    corners,       \* the emitted Corner Records
    result,        \* what detect_corners hands to its caller
    \* ---- BrakingPointDetector.detect_braking_points
    bpc,           \* position in detect_braking_points
    bload,         \* outcome of _load_track_telemetry
    bcols,         \* the telemetry columns present in the frame
    bdf,           \* the aligned frame, with the speed_diff column added
    bi,            \* loop index of `for i in range(1, len(df))`
    events,        \* the emitted Braking Events
    bresult,       \* what detect_braking_points hands to its caller
    \* ---- pit-stop optimizer page
    spc,           \* position in the page script
    car_df,        \* the car's lap table
    pit_loss,      \* estimate_pit_loss(car_df)
    model,         \* fit_degradation(car_df): [an, bn, d]
    res,           \* simulate(...): the comparison table
    best,          \* the row of res selected as best
    \* ---- utils.pit_stop_optimizer.build_pit_scenarios
    upc,             \* position in build_pit_scenarios
    sectors_df,      \* the rows of the requested track and car, and the columns
    total_race_laps, \* parameter of build_pit_scenarios
    ucar_df,         \* car_df of build_pit_scenarios
    umodel,          \* a, b = fit_degradation_model(car_df)
    upit_loss,       \* estimate_pit_loss(car_df, default_pit_loss_s)
    scenarios,       \* what build_pit_scenarios hands to its caller
    \* ---- SectorDetector.detect_sectors
    secpc,         \* position in detect_sectors
    sdf,           \* self.df: the sector table loaded by the constructor
    track_name,    \* parameter of detect_sectors
    sector_summary, \* what detect_sectors hands to its caller
    \* ---- detect_corners called a second time
    run,           \* number of the current call of detect_corners
    first_result,  \* what the first call handed to its caller
    \* ---- TrackConfigBuilder.build
    build_pc,      \* position in build
    track_i,       \* index in TRACKS of the track of the current iteration
    sectors,       \* local variable sectors of the iteration
    track_corners, \* local variable corners of the iteration
    braking_points, \* local variable braking_points of the iteration
    metadata,      \* the mapping under construction
    out_file,      \* what has been written to track_metadata.json
    \* ---- two invocations, one per track, running interleaved
    telemetry,     \* the telemetry frame stored for each track
    wpc,           \* position of each invocation
    wsectors,      \* what each detect_sectors invocation returned
    wdf,           \* df of each detect_braking_points invocation
    wi,            \* loop index of each detect_braking_points invocation
    wevents,       \* events of each detect_braking_points invocation
    wbraking,      \* what each detect_braking_points invocation returned
    \* ---- _load_track_telemetry
    lpc,           \* position in _load_track_telemetry
    ts_dtype,      \* dtype of the timestamp column of the stored telemetry
    raw_df,        \* df: the long-format rows the query gives
    df_pivot,      \* df_pivot
    loaded         \* what _load_track_telemetry hands to its caller

cornerVars == <<pc, load, df, min_segment, i, in_corner, start_idx, corners, result>>
brakingVars == <<bpc, bload, bcols, bdf, bi, events, bresult>>
strategyVars == <<spc, car_df, pit_loss, model, res, best>>
utilsVars == <<upc, sectors_df, total_race_laps, ucar_df, umodel, upit_loss, scenarios>>
sectorVars == <<secpc, sdf, track_name, sector_summary>>
rerunVars == <<run, first_result>>
builderVars == <<build_pc, track_i, sectors, track_corners, braking_points, metadata, out_file>>
workerVars == <<telemetry, wpc, wsectors, wdf, wi, wevents, wbraking>>
loaderVars == <<lpc, ts_dtype, raw_df, df_pivot, loaded>>
vars == <<cornerVars, brakingVars, strategyVars, utilsVars, sectorVars,
          rerunVars, builderVars, workerVars, loaderVars>>

----------------------------------------------------------------------------
(* pandas / numpy helpers                                                  *)

\* An absent cell (NaN). Every comparison with NaN is false.
NaN == -999999

isna(x) == x = NaN

abs(x) == IF x = NaN THEN NaN ELSE IF x < 0 THEN -x ELSE x

\* x < y and x > y on floats: false when either side is NaN
lt(x, y) == x # NaN /\ y # NaN /\ x < y

gt(x, y) == x # NaN /\ y # NaN /\ x > y

None == "None"

SetMin(S) == CHOOSE x \in S : \A y \in S : x <= y

SetMax(S) == CHOOSE x \in S : \A y \in S : x >= y

\* Series.min() / Series.max(): NaN cells are skipped, NaN when none is left
SeriesMin(s) ==
    LET S == {s[k] : k \in 1..Len(s)} \ {NaN}
    IN  IF S = {} THEN NaN ELSE SetMin(S)

SeriesMax(s) ==
    LET S == {s[k] : k \in 1..Len(s)} \ {NaN}
    IN  IF S = {} THEN NaN ELSE SetMax(S)

\* df.iloc[k] with the 0-based k of the source
iloc(frame, k) == frame[k + 1]

\* Variant: a slice that takes the row at b as well
ilocSlice_Closed(frame, a, b) == SubSeq(frame, a + 1, b + 1)

\* df.iloc[a:b] with 0-based a (inclusive) and b (exclusive)
ilocSlice(frame, a, b) == SubSeq(frame, a + 1, b)

Column(frame, c) == [k \in 1..Len(frame) |-> frame[k][c]]

\* All sequences over S of length 0..n
SeqsUpTo(S, n) == UNION {[1..k -> S] : k \in 0..n}

----------------------------------------------------------------------------
(* CornerDetector                                                          *)

\* detect_corners(track_name, steering_threshold=5, min_segment=8)
steering_threshold == 5

\* abs(lat_g) > 0.15
entry_g_threshold == 15

\* abs(angle) < 3
exit_steering_threshold == 3

\* abs(lat_g) < 0.1
exit_g_threshold == 10

\* Bounds of the enumerated inputs
MaxLen == 3

MaxSteerLen == 5

MaxTimingLen == 4

MaxMinSegment == 2

\* (steering_angle, accy_can) cells of one row: absent cells, values inside
\* the exit band, on its edges, between the bands, on the entry edges and
\* beyond them, of either sign.
CornerCells ==
    { <<NaN, 0>>, <<0, NaN>>, <<0, 0>>, <<3, 0>>, <<2, 10>>,
      <<4, 12>>, <<5, 15>>, <<-8, 0>>, <<0, -20>>, <<NaN, 20>> }

\* speed and lap of the row at 0-based position k, for the enumerated
\* sessions (a braking-then-accelerating run, a steady run over two laps,
\* and a run on a track where speed is not logged)
SpeedOf(p, k) == IF p = 1 THEN 90 - 20 * k + 5 * k * k ELSE IF p = 2 THEN 60 ELSE NaN

LapOf(p, k) == IF p = 1 THEN 1 ELSE 1 + (k \div 2)

Row(ts, p, k, cell) ==
    [timestamp |-> ts, lap |-> LapOf(p, k), speed |-> SpeedOf(p, k),
     accy_can |-> cell[2], steering_angle |-> cell[1]]

\* Frames whose rows are one second apart
SignalFrames ==
    { [k \in 1..Len(cs) |-> Row(100 + k, p, k - 1, cs[k])] :
        cs \in SeqsUpTo(CornerCells, MaxLen), p \in {1, 2} }

SteerFrames ==
    { [k \in 1..Len(as) |-> Row(100 + k, 1, k - 1, <<as[k], 0>>)] :
        as \in SeqsUpTo({0, 2, 8}, MaxSteerLen) }

\* Frames in which consecutive rows may carry the same timestamp (rows of
\* different vehicles): dts[k] is the step from row k-1 to row k.
RECURSIVE SumTo(_, _)
SumTo(s, k) == IF k = 0 THEN 0 ELSE s[k] + SumTo(s, k - 1)

TimingFrames ==
    { [k \in 1..Len(rs) |-> Row(100 + SumTo([j \in 1..Len(rs) |-> rs[j][2]], k),
                                 2, k - 1, <<rs[k][1], 0>>)] :
        rs \in SeqsUpTo({0, 8} \X {0, 1}, MaxTimingLen) }

\* Frames of a track where speed is not logged
NoSpeedFrames ==
    { [k \in 1..Len(as) |-> Row(100 + k, 3, k - 1, <<as[k], 0>>)] :
        as \in SeqsUpTo({0, 2, 8}, MaxLen) }

CornerFrames == SignalFrames \cup SteerFrames \cup TimingFrames \cup NoSpeedFrames

MinSegments == 0..MaxMinSegment

\* The telemetry columns of the pivoted frame: pivot_table makes a column for
\* every signal name that has at least one value (lines 45-50)
CornerColumns(frame) ==
    {c \in {"speed", "accy_can", "steering_angle"} :
        \E k \in 1..Len(frame) : ~isna(frame[k][c])}

\* A requirement that leaves speed out
required_NoSpeed == {"accy_can", "steering_angle"}

\* required = {"speed", "accy_can", "steering_angle"} (line 75)
required == {"speed", "accy_can", "steering_angle"}

\* Start of corner: big steering or lateral G (line 92)
EntryGuard(angle, lat_g) ==
    gt(abs(angle), steering_threshold) \/ gt(abs(lat_g), entry_g_threshold)

\* Variant: the interval closes on the entry thresholds (no hysteresis)
ExitGuard_EntryThresholds(angle, lat_g) ==
    lt(abs(angle), steering_threshold) /\ lt(abs(lat_g), entry_g_threshold)

\* End of corner: steering & lat G drop back near zero (line 97)
ExitGuard(angle, lat_g) ==
    lt(abs(angle), exit_steering_threshold) /\ lt(abs(lat_g), exit_g_threshold)

\* Variant: a row is skipped only when both signals are missing
Skipped_BothMissing(angle, lat_g) == isna(angle) /\ isna(lat_g)

\* The rows missing steering angle or lateral g are skipped (line 88)
Skipped(angle, lat_g) == isna(angle) \/ isna(lat_g)

\* Variant: a segment of exactly min_segment samples is long enough
LongEnough_Inclusive(start, end, minseg) == end - start >= minseg

\* if end_idx - start_idx > min_segment (line 99)
LongEnough(start, end, minseg) == end - start > minseg

\* Variant: start_time and end_time take each other's aggregate
CornerRecord_SwappedTimes(frame, start, end) ==
    LET seg == ilocSlice(frame, start, end)
    IN  [start_time    |-> SeriesMax(Column(seg, "timestamp")),
         end_time      |-> SeriesMin(Column(seg, "timestamp")),
         min_speed     |-> SeriesMin(Column(seg, "speed")),
         max_lateral_g |-> SeriesMax([k \in 1..Len(seg) |-> abs(seg[k].accy_can)]),
         entry_speed   |-> seg[1].speed,
         exit_speed    |-> seg[Len(seg)].speed,
         lap           |-> seg[1].lap]

\* The record built from seg = df.iloc[start_idx:end_idx] (lines 100-110)
CornerRecord(frame, start, end) ==
    LET seg == ilocSlice(frame, start, end)
    IN  [start_time    |-> SeriesMin(Column(seg, "timestamp")),
         end_time      |-> SeriesMax(Column(seg, "timestamp")),
         min_speed     |-> SeriesMin(Column(seg, "speed")),
         max_lateral_g |-> SeriesMax([k \in 1..Len(seg) |-> abs(seg[k].accy_can)]),
         entry_speed   |-> seg[1].speed,
         exit_speed    |-> seg[Len(seg)].speed,
         lap           |-> seg[1].lap]

\* Variant: the list holds the latest record only
emit_Latest(list, rec) == <<rec>>

\* corners.append(...) (line 102)
emit(list, rec) == Append(list, rec)

\* Variant: the end of the stream closes an open interval
at_end_Closing(list, frame, open, start) ==
    IF open THEN emit(list, CornerRecord(frame, start, Len(frame))) ELSE list

\* return corners (line 113): the list as the loop left it
at_end(list, frame, open, start) == list

\* detect_corners is entered; the other components are not running
CornerInit ==
    /\ pc = "start"
    /\ load = None
    /\ df = <<>>
    /\ min_segment \in MinSegments
    /\ i = 0
    /\ in_corner = FALSE
    /\ start_idx = None
    /\ corners = <<>>
    /\ result = None
    /\ bpc = "idle" /\ bload = None /\ bcols = {} /\ bdf = <<>> /\ bi = 0
    /\ events = <<>> /\ bresult = None
    /\ spc = "idle" /\ car_df = <<>> /\ pit_loss = None /\ model = None
    /\ res = <<>> /\ best = None
    /\ upc = "idle" /\ sectors_df = None /\ total_race_laps = 0 /\ ucar_df = <<>>
    /\ umodel = None /\ upit_loss = None /\ scenarios = None
    /\ secpc = "idle" /\ sdf = None /\ track_name = None /\ sector_summary = None
    /\ run = 1 /\ first_result = None
    /\ build_pc = "idle" /\ track_i = 0 /\ sectors = None /\ track_corners = None
    /\ braking_points = None /\ metadata = <<>> /\ out_file = None
    /\ telemetry = None /\ wpc = None /\ wsectors = None
    /\ wdf = None /\ wi = None /\ wevents = None /\ wbraking = None
    /\ lpc = "idle" /\ ts_dtype = None /\ raw_df = <<>> /\ df_pivot = <<>>
    /\ loaded = None

\* df = self._load_track_telemetry(track_name) raised inside duckdb.query:
\* the except clause prints and returns an empty DataFrame, and detect_corners
\* returns [] for an empty frame (lines 35-39, 71-73).
LoadQueryError ==
    /\ pc = "start"
    /\ load' = "query_error"
    /\ df' = <<>>
    /\ result' = [kind |-> "returned", value |-> <<>>]
    /\ pc' = "done"
    /\ UNCHANGED <<min_segment, i, in_corner, start_idx, corners>>
    /\ UNCHANGED <<brakingVars, strategyVars, utilsVars, sectorVars, rerunVars, builderVars, workerVars, loaderVars>>

\* The query gave no rows: df.empty, detect_corners returns [] (lines 41-42, 72-73)
LoadNoRows ==
    /\ pc = "start"
    /\ load' = "no_rows"
    /\ df' = <<>>
    /\ result' = [kind |-> "returned", value |-> <<>>]
    /\ pc' = "done"
    /\ UNCHANGED <<min_segment, i, in_corner, start_idx, corners>>
    /\ UNCHANGED <<brakingVars, strategyVars, utilsVars, sectorVars, rerunVars, builderVars, workerVars, loaderVars>>

\* A required column is not in the frame: detect_corners returns [] (lines 75-78)
LoadMissingColumns ==
    /\ pc = "start"
    /\ load' = "missing_columns"
    /\ \E f \in CornerFrames :
          /\ Len(f) > 0
          /\ ~(required \subseteq CornerColumns(f))
          /\ df' = f
    /\ result' = [kind |-> "returned", value |-> <<>>]
    /\ pc' = "done"
    /\ UNCHANGED <<min_segment, i, in_corner, start_idx, corners>>
    /\ UNCHANGED <<brakingVars, strategyVars, utilsVars, sectorVars, rerunVars, builderVars, workerVars, loaderVars>>

\* The frame has rows and the three columns: the loop starts (lines 80-84)
LoadFrame ==
    /\ pc = "start"
    /\ load' = "frame"
    /\ \E f \in CornerFrames :
          /\ Len(f) > 0
          /\ required \subseteq CornerColumns(f)
          /\ df' = f
    /\ corners' = <<>>
    /\ in_corner' = FALSE
    /\ start_idx' = None
    /\ i' = 0
    /\ pc' = "loop"
    /\ UNCHANGED <<min_segment, result>>
    /\ UNCHANGED <<brakingVars, strategyVars, utilsVars, sectorVars, rerunVars, builderVars, workerVars, loaderVars>>

\* One iteration of `for i in range(len(df))` (lines 84-111)
CornerStep ==
    /\ pc = "loop"
    /\ i < Len(df)
    /\ LET angle == iloc(df, i).steering_angle
           lat_g == iloc(df, i).accy_can
           enter == ~in_corner /\ EntryGuard(angle, lat_g)
           in1   == in_corner \/ enter
           st1   == IF enter THEN i ELSE start_idx
           leave == in1 /\ ExitGuard(angle, lat_g)
       IN  IF Skipped(angle, lat_g)
           THEN UNCHANGED <<in_corner, start_idx, corners>>
           ELSE /\ in_corner' = (in1 /\ ~leave)
                /\ start_idx' = st1
                /\ corners' = IF leave /\ LongEnough(st1, i, min_segment)
                              THEN emit(corners, CornerRecord(df, st1, i))
                              ELSE corners
    /\ i' = i + 1
    /\ UNCHANGED <<pc, load, df, min_segment, result>>
    /\ UNCHANGED <<brakingVars, strategyVars, utilsVars, sectorVars, rerunVars, builderVars, workerVars, loaderVars>>

\* return corners (line 113)
CornerReturn ==
    /\ pc = "loop"
    /\ i = Len(df)
    /\ result' = [kind |-> "returned",
                  value |-> at_end(corners, df, in_corner, start_idx)]
    /\ pc' = "done"
    /\ UNCHANGED <<load, df, min_segment, i, in_corner, start_idx, corners>>
    /\ UNCHANGED <<brakingVars, strategyVars, utilsVars, sectorVars, rerunVars, builderVars, workerVars, loaderVars>>

CornerNext ==
    \/ LoadQueryError
    \/ LoadNoRows
    \/ LoadMissingColumns
    \/ LoadFrame
    \/ CornerStep
    \/ CornerReturn

----------------------------------------------------------------------------
CornerSpec == CornerInit /\ [][CornerNext]_vars

----------------------------------------------------------------------------
(* Properties of the Corner Segmenter                                      *)

\* The segmenter is about to process row i
AtSample == pc = "loop" /\ i < Len(df)

Angles(frame) == [k \in 1..Len(frame) |-> frame[k].steering_angle]

LatGs(frame) == [k \in 1..Len(frame) |-> frame[k].accy_can]

\* C1: the state changes only while a sample is processed; on a sample with
\* both signals present Outside goes to InCorner iff |angle| > 5 or
\* |lateral g| > 0.15, InCorner goes to Outside iff |angle| < 3 and
\* |lateral g| < 0.10, and InCorner is kept by a sample between the two
\* guards such as angle 4, lateral g 0.12.
C1_TransitionsByGuards ==
    [][ /\ (in_corner' # in_corner) => AtSample
        /\ AtSample =>
             LET a == iloc(df, i).steering_angle
                 g == iloc(df, i).accy_can
                 present == a # NaN /\ g # NaN
                 entry == present /\ (a > 5 \/ a < -5 \/ g > 15 \/ g < -15)
                 exit == present /\ (-3 < a /\ a < 3) /\ (-10 < g /\ g < 10)
             IN  /\ (~in_corner /\ in_corner') <=> (~in_corner /\ entry)
                 /\ (in_corner /\ ~in_corner') <=> (in_corner /\ exit)
                 /\ (in_corner /\ present /\ ~entry /\ ~exit) => in_corner'
                 /\ (in_corner /\ a = 4 /\ g = 12) => in_corner'
      ]_vars

\* An open interval has just been kept by the sample (4, 0.12)
C1_Witness ==
    /\ pc = "loop" /\ i >= 2 /\ in_corner /\ start_idx < i - 1
    /\ iloc(df, i - 1).steering_angle = 4
    /\ iloc(df, i - 1).accy_can = 12

\* The frame of the scenario: steering [0, 8, 8, 2, 2], lateral g always 0
ScenarioFrame(frame) ==
    /\ Angles(frame) = <<0, 8, 8, 2, 2>>
    /\ LatGs(frame) = <<0, 0, 0, 0, 0>>

\* C2: a record is appended only when a segment closes, and then if and
\* only if end - start > min_segment (a segment of exactly min_segment
\* samples emits nothing); on steering [0, 8, 8, 2, 2] with lateral g 0 and
\* min_segment 2 the segment opens at index 1, closes at index 3 and no
\* record is emitted.
C2_StrictMinSegment ==
    [][ /\ LET closing == in_corner /\ ~in_corner'
           IN  /\ (corners' # corners) => (AtSample /\ closing)
               /\ closing =>
                    IF i - start_idx > min_segment
                    THEN Len(corners') = Len(corners) + 1
                         /\ SubSeq(corners', 1, Len(corners)) = corners
                    ELSE corners' = corners
        /\ (ScenarioFrame(df') /\ min_segment' = 2 /\ load' = "frame") =>
               /\ in_corner' <=> (i' \in {2, 3})
               /\ in_corner' => start_idx' = 1
               /\ corners' = <<>>
               /\ (pc' = "done") => (result'.value = <<>>)
      ]_vars

\* The scenario has run to its end
C2_Witness ==
    /\ pc = "done" /\ load = "frame" /\ min_segment = 2
    /\ ScenarioFrame(df)
    /\ start_idx = 1 /\ i = 5

\* C3 as stated: every emitted record has end_time > start_time
C3_EndAfterStart ==
    \A k \in 1..Len(corners) : corners[k].end_time > corners[k].start_time

\* C3 as amended: every emitted record has end_time >= start_time, and the
\* two are equal exactly when all rows of its segment [start, end) carry
\* the same timestamp.
C3_EndNotBeforeStart ==
    [][ (Len(corners') = Len(corners) + 1) =>
          LET r == corners'[Len(corners')]
              T == {iloc(df, k).timestamp : k \in start_idx..(i - 1)}
          IN  /\ r.end_time >= r.start_time
              /\ (r.end_time = r.start_time) <=> (Cardinality(T) = 1)
              /\ \A k \in 1..Len(corners') :
                    corners'[k].end_time >= corners'[k].start_time
      ]_vars

\* A record whose segment spans more than one timestamp has been emitted
C3_Witness ==
    /\ pc = "done" /\ Len(corners) >= 1
    /\ corners[1].end_time > corners[1].start_time

\* C4: a sample missing steering angle or lateral g changes neither the
\* state, nor the start index, nor the records, and the loop goes on to the
\* next sample; an open interval stays open.
C4_AbsentSampleSkipped ==
    [][ (AtSample /\ (iloc(df, i).steering_angle = NaN
                       \/ iloc(df, i).accy_can = NaN)) =>
          /\ in_corner' = in_corner
          /\ start_idx' = start_idx
          /\ corners' = corners
          /\ result' = result
          /\ pc' = "loop" /\ i' = i + 1
      ]_vars

\* An open interval has just met a sample without steering angle whose
\* lateral g is inside the exit band
C4_Witness ==
    /\ pc = "loop" /\ i >= 2 /\ in_corner /\ start_idx < i - 1
    /\ iloc(df, i - 1).steering_angle = NaN
    /\ iloc(df, i - 1).accy_can = 0

\* C5 as stated: the segmenter starts Outside and is Outside once the last
\* sample has been processed
C5_OutsideAtEndOfStream ==
    /\ (pc = "start") => ~in_corner
    /\ (pc = "done") => ~in_corner

\* C8 as stated: a failed query reaches the caller of detect_corners as a
\* failure, not as a returned list
C8_QueryFailurePropagates ==
    (pc = "done" /\ load = "query_error") => result.kind = "raised"

----------------------------------------------------------------------------
(* BrakingPointDetector                                                    *)

\* thr_drop = -4.0 km/h per sample
thr_drop == -4

\* thr_acc = -0.2 G
thr_acc == -20

\* thr_brake = 5.0 bar
thr_brake == 5

MaxBrakeLen == 3

BrakeChannels == {"speed", "accx_can", "pbrake_f", "pbrake_r"}

\* (speed, accx_can, pbrake_f, pbrake_r) cells of one row: steady running,
\* values on the edge of each threshold, one value beyond each threshold,
\* and rows in which some cells are absent.
BrakeCells ==
    { <<100, 0, 0, 0>>, <<96, -20, 5, 5>>, <<90, 0, 0, 0>>,
      <<100, -30, 0, 0>>, <<100, 0, 6, 0>>, <<100, 0, 0, 6>>,
      <<NaN, -30, NaN, 6>>, <<100, NaN, NaN, NaN>> }

\* The row at 0-based position k; a channel that is not logged on the track
\* has no value in any row
BrakeRow(k, cell, logged) ==
    [timestamp      |-> 100 + k,
     lap            |-> 1 + (k \div 2),
     vehicle_number |-> 7,
     speed          |-> IF "speed" \in logged THEN cell[1] ELSE NaN,
     accx_can       |-> IF "accx_can" \in logged THEN cell[2] ELSE NaN,
     pbrake_f       |-> IF "pbrake_f" \in logged THEN cell[3] ELSE NaN,
     pbrake_r       |-> IF "pbrake_r" \in logged THEN cell[4] ELSE NaN]

\* The telemetry columns of the pivoted frame (lines 42-47)
BrakeColumns(frame) ==
    {c \in BrakeChannels : \E k \in 1..Len(frame) : ~isna(frame[k][c])}

\* pivot_table keeps a row only when it holds some value
BrakeFrames ==
    { f \in { [k \in 1..Len(cs) |-> BrakeRow(k - 1, cs[k], logged)] :
                cs \in SeqsUpTo(BrakeCells, MaxBrakeLen),
                logged \in SUBSET BrakeChannels } :
        \A k \in 1..Len(f) : \E c \in BrakeChannels : ~isna(f[k][c]) }

\* df["speed_diff"] = df["speed"].diff() (line 76)
WithSpeedDiff(frame) ==
    [k \in 1..Len(frame) |->
        [timestamp      |-> frame[k].timestamp,
         lap            |-> frame[k].lap,
         vehicle_number |-> frame[k].vehicle_number,
         speed          |-> frame[k].speed,
         accx_can       |-> frame[k].accx_can,
         pbrake_f       |-> frame[k].pbrake_f,
         pbrake_r       |-> frame[k].pbrake_r,
         speed_diff     |-> IF k = 1 \/ isna(frame[k].speed) \/ isna(frame[k - 1].speed)
                            THEN NaN
                            ELSE frame[k].speed - frame[k - 1].speed]]

\* Variant: a drop of exactly thr_drop counts as braking
cond1_Inclusive(row) ==
    IF ~isna(row.speed_diff) THEN row.speed_diff <= thr_drop ELSE FALSE

\* cond1 (line 92)
cond1(row) ==
    IF ~isna(row.speed_diff) THEN row.speed_diff < thr_drop ELSE FALSE

\* cond2 (line 93)
cond2(row, has_accx) ==
    has_accx /\ (IF ~isna(row.accx_can) THEN row.accx_can < thr_acc ELSE FALSE)

\* cond3 (line 94)
cond3(row, has_f) ==
    has_f /\ (IF ~isna(row.pbrake_f) THEN row.pbrake_f > thr_brake ELSE FALSE)

\* cond4 (line 95)
cond4(row, has_r) ==
    has_r /\ (IF ~isna(row.pbrake_r) THEN row.pbrake_r > thr_brake ELSE FALSE)

\* Variant: the pressure clauses count only when both pressures are logged
Fires_PressuresTogether(row, has_accx, has_f, has_r) ==
    \/ cond1(row)
    \/ cond2(row, has_accx)
    \/ (has_r /\ cond3(row, has_f))
    \/ (has_f /\ cond4(row, has_r))

\* if cond1 or cond2 or cond3 or cond4 (line 97)
Fires(row, has_accx, has_f, has_r) ==
    cond1(row) \/ cond2(row, has_accx) \/ cond3(row, has_f) \/ cond4(row, has_r)

\* An event whose two speeds are exchanged
BrakingEvent_SwappedSpeeds(row, prev) ==
    [timestamp      |-> row.timestamp,
     lap            |-> row.lap,
     vehicle_number |-> row.vehicle_number,
     speed_before   |-> row.speed,
     speed_after    |-> prev.speed]

\* The event appended for row i (lines 98-104)
BrakingEvent(row, prev) ==
    [timestamp      |-> row.timestamp,
     lap            |-> row.lap,
     vehicle_number |-> row.vehicle_number,
     speed_before   |-> prev.speed,
     speed_after    |-> row.speed]

\* detect_braking_points is entered; the other components are not running
BrakingInit ==
    /\ bpc = "start"
    /\ bload = None
    /\ bcols = {}
    /\ bdf = <<>>
    /\ bi = 0
    /\ events = <<>>
    /\ bresult = None
    /\ pc = "idle" /\ load = None /\ df = <<>> /\ min_segment = 8 /\ i = 0
    /\ in_corner = FALSE /\ start_idx = None /\ corners = <<>> /\ result = None
    /\ spc = "idle" /\ car_df = <<>> /\ pit_loss = None /\ model = None
    /\ res = <<>> /\ best = None
    /\ upc = "idle" /\ sectors_df = None /\ total_race_laps = 0 /\ ucar_df = <<>>
    /\ umodel = None /\ upit_loss = None /\ scenarios = None
    /\ secpc = "idle" /\ sdf = None /\ track_name = None /\ sector_summary = None
    /\ run = 1 /\ first_result = None
    /\ build_pc = "idle" /\ track_i = 0 /\ sectors = None /\ track_corners = None
    /\ braking_points = None /\ metadata = <<>> /\ out_file = None
    /\ telemetry = None /\ wpc = None /\ wsectors = None
    /\ wdf = None /\ wi = None /\ wevents = None /\ wbraking = None
    /\ lpc = "idle" /\ ts_dtype = None /\ raw_df = <<>> /\ df_pivot = <<>>
    /\ loaded = None

\* duckdb.query raised: the except clause returns an empty DataFrame and
\* detect_braking_points returns [] (lines 33-37, 68-70)
BrakeLoadQueryError ==
    /\ bpc = "start"
    /\ bload' = "query_error"
    /\ bdf' = <<>>
    /\ bcols' = {}
    /\ bresult' = [kind |-> "returned", value |-> <<>>]
    /\ bpc' = "done"
    /\ UNCHANGED <<bi, events>>
    /\ UNCHANGED <<cornerVars, strategyVars, utilsVars, sectorVars, rerunVars, builderVars, workerVars, loaderVars>>

\* The query gave no rows (lines 39-40, 69-70)
BrakeLoadNoRows ==
    /\ bpc = "start"
    /\ bload' = "no_rows"
    /\ bdf' = <<>>
    /\ bcols' = {}
    /\ bresult' = [kind |-> "returned", value |-> <<>>]
    /\ bpc' = "done"
    /\ UNCHANGED <<bi, events>>
    /\ UNCHANGED <<cornerVars, strategyVars, utilsVars, sectorVars, rerunVars, builderVars, workerVars, loaderVars>>

\* The frame has no speed column (lines 72-74)
BrakeLoadNoSpeed ==
    /\ bpc = "start"
    /\ bload' = "no_speed"
    /\ \E f \in BrakeFrames :
          /\ Len(f) > 0
          /\ "speed" \notin BrakeColumns(f)
          /\ bdf' = f
          /\ bcols' = BrakeColumns(f)
    /\ bresult' = [kind |-> "returned", value |-> <<>>]
    /\ bpc' = "done"
    /\ UNCHANGED <<bi, events>>
    /\ UNCHANGED <<cornerVars, strategyVars, utilsVars, sectorVars, rerunVars, builderVars, workerVars, loaderVars>>

\* The frame has rows and a speed column: speed_diff is added and the loop
\* starts at row 1 (lines 76-88)
BrakeLoadFrame ==
    /\ bpc = "start"
    /\ bload' = "frame"
    /\ \E f \in BrakeFrames :
          /\ Len(f) > 0
          /\ "speed" \in BrakeColumns(f)
          /\ bdf' = WithSpeedDiff(f)
          /\ bcols' = BrakeColumns(f)
    /\ events' = <<>>
    /\ bi' = 1
    /\ bpc' = "loop"
    /\ UNCHANGED bresult
    /\ UNCHANGED <<cornerVars, strategyVars, utilsVars, sectorVars, rerunVars, builderVars, workerVars, loaderVars>>

\* One iteration of `for i in range(1, len(df))` (lines 88-104)
BrakeStep ==
    /\ bpc = "loop"
    /\ bi < Len(bdf)
    /\ LET row == iloc(bdf, bi)
           prev == iloc(bdf, bi - 1)
           has_accx == "accx_can" \in bcols
           has_f == "pbrake_f" \in bcols
           has_r == "pbrake_r" \in bcols
       IN  events' =
             IF Fires(row, has_accx, has_f, has_r)
             THEN Append(events, BrakingEvent(row, prev))
             ELSE events
    /\ bi' = bi + 1
    /\ UNCHANGED <<bpc, bload, bcols, bdf, bresult>>
    /\ UNCHANGED <<cornerVars, strategyVars, utilsVars, sectorVars, rerunVars, builderVars, workerVars, loaderVars>>

\* return events (line 106)
BrakeReturn ==
    /\ bpc = "loop"
    /\ bi >= Len(bdf)
    /\ bresult' = [kind |-> "returned", value |-> events]
    /\ bpc' = "done"
    /\ UNCHANGED <<bload, bcols, bdf, bi, events>>
    /\ UNCHANGED <<cornerVars, strategyVars, utilsVars, sectorVars, rerunVars, builderVars, workerVars, loaderVars>>

BrakingNext ==
    \/ BrakeLoadQueryError
    \/ BrakeLoadNoRows
    \/ BrakeLoadNoSpeed
    \/ BrakeLoadFrame
    \/ BrakeStep
    \/ BrakeReturn

BrakingSpec == BrakingInit /\ [][BrakingNext]_vars

----------------------------------------------------------------------------
(* Properties of the Braking Detector                                      *)

\* Row k (0-based) of the frame meets a clause of the detector, the
\* thresholds written as the numbers of the specification
SpeedClause(frame, k) ==
    /\ k > 0
    /\ frame[k + 1].speed # NaN /\ frame[k].speed # NaN
    /\ frame[k + 1].speed - frame[k].speed < -4

AccelClause(frame, k) ==
    frame[k + 1].accx_can # NaN /\ frame[k + 1].accx_can < -20

PressureClause(frame, k) ==
    \/ frame[k + 1].pbrake_f # NaN /\ frame[k + 1].pbrake_f > 5
    \/ frame[k + 1].pbrake_r # NaN /\ frame[k + 1].pbrake_r > 5

\* The 0-based rows at which an event has been emitted
FiredAt(evs, frame) ==
    {k \in 0..(Len(frame) - 1) : \E e \in 1..Len(evs) : evs[e].timestamp = frame[k + 1].timestamp}

\* C6: an event is emitted at row i > 0 if and only if the speed dropped by
\* more than 4.0 from row i-1, or the longitudinal acceleration is below
\* -0.2, or the front or rear brake pressure is above 5.0; row 0 never
\* fires and an absent value meets no clause; a speed-only series with one
\* drop of 10 gives exactly one event, at the row of the drop.
C6_EventIffClause ==
    /\ (bpc = "loop") =>
          /\ Len(events) = Cardinality(FiredAt(events, bdf))
          /\ FiredAt(events, bdf) =
                {k \in 1..(bi - 1) :
                    SpeedClause(bdf, k) \/ AccelClause(bdf, k) \/ PressureClause(bdf, k)}
    /\ (bpc = "done" /\ bload = "frame") =>
          /\ bresult.value = events
          /\ Len(events) = Cardinality(FiredAt(events, bdf))
          /\ FiredAt(events, bdf) =
                {k \in 1..(Len(bdf) - 1) :
                    SpeedClause(bdf, k) \/ AccelClause(bdf, k) \/ PressureClause(bdf, k)}
          /\ (bcols = {"speed"} /\ Column(bdf, "speed") = <<100, 90, 90>>) =>
                (Len(events) = 1 /\ events[1].timestamp = bdf[2].timestamp)

\* The speed-only series 100, 90, 90 has been processed
C6_Witness ==
    /\ bpc = "done" /\ bload = "frame"
    /\ bcols = {"speed"}
    /\ Column(bdf, "speed") = <<100, 90, 90>>
    /\ Len(events) = 1

\* Row k qualifies by brake pressure or by longitudinal acceleration
Qualifies(frame, k) == k > 0 /\ (AccelClause(frame, k) \/ PressureClause(frame, k))

\* C7 as stated: whichever channels are absent from the frame, a row i > 0
\* that qualifies by pressure or acceleration has an event
C7_AnySignalSuffices ==
    (bpc = "done" /\ bload \in {"frame", "no_speed"}) =>
        \A k \in 0..(Len(bdf) - 1) :
            Qualifies(bdf, k) => k \in FiredAt(bresult.value, bdf)

\* C7 as amended: when the frame has a speed column, a row i > 0 that
\* qualifies by pressure or acceleration has an event whichever of the
\* other channels are absent; when the frame has no speed column the
\* detector returns no event at all.
C7_AnySignalSufficesGivenSpeed ==
    /\ (bpc = "done" /\ bload = "frame") =>
          \A k \in 0..(Len(bdf) - 1) :
              Qualifies(bdf, k) => k \in FiredAt(bresult.value, bdf)
    /\ (bpc = "done" /\ bload = "no_speed") => bresult.value = <<>>

\* The front brake pressure alone has fired, acceleration and rear
\* pressure being absent from the frame
C7_Witness ==
    /\ bpc = "done" /\ bload = "frame"
    /\ bcols = {"speed", "pbrake_f"}
    /\ \E k \in 1..(Len(bdf) - 1) :
          /\ bdf[k + 1].pbrake_f = 6
          /\ ~SpeedClause(bdf, k)
          /\ k \in FiredAt(bresult.value, bdf)

----------------------------------------------------------------------------
(* Pit-stop optimizer page.  Times are in hundredths of a second.          *)

\* lt.where(lt < 1000, lt / 1000): values of 1000 or more are milliseconds
ms_cutoff == 100000

\* df["lap_time_s"] > 20
min_lap_time == 2000

\* df["lap_time_s"] < 300
max_lap_time == 30000

\* if len(df) < 5
min_laps == 5

\* base = ... if len(df) else 120 ; median fill ... else 120.0
default_lap_time == 12000

\* car_df.get("pit_time", 0).fillna(0) > 1.0
pit_flag_threshold == 100

\* return 20.0
default_pit_loss == 2000

\* return float(base["lap_time_s"].median()), 0.02
default_slope == 2

\* if len(base) < 4
min_fit_laps == 4

MaxLaps == 5

MaxFlatLaps == 20

\* (lap_time_s, s1+s2+s3, pit_time) of one input row: a lap timed directly,
\* a lap timed by its sectors only, a pit lap with its pit time, a slow lap
\* without pit time, a lap without any time, a lap too short to be real.
\* The times are multiples of 2 s, which keeps every median and every
\* filler time (median * 1.02) a whole number of hundredths.
LapCells ==
    { <<8800, 8800, 0>>, <<NaN, 9200, 0>>, <<13200, 13200, 3200>>,
      <<13200, 13200, 0>>, <<NaN, 0, 0>>, <<1600, 1600, 0>> }

\* The lap column of the row at position k (1-based): consecutive laps, a
\* table whose first lap is listed twice, a table counting laps from 0
LapNumberings == {"consecutive", "repeated", "from_zero"}

LapAt(numbering, k) ==
    CASE numbering = "consecutive" -> k
      [] numbering = "repeated"    -> IF k = 1 THEN 1 ELSE k - 1
      [] numbering = "from_zero"   -> k - 1

LapRow(lap, cell) ==
    [lap |-> lap, lap_time_s |-> cell[1], sec_sum |-> cell[2], pit_time |-> cell[3]]

MixedTables ==
    { [k \in 1..Len(cs) |-> LapRow(LapAt(nb, k), cs[k])] :
        cs \in (SeqsUpTo(LapCells, MaxLaps) \ {<<>>}), nb \in LapNumberings }

\* A perfectly flat series: n laps of 90.0 s, no pit time recorded
FlatTables ==
    { [k \in 1..n |-> LapRow(k, <<9000, 9000, NaN>>)] : n \in 1..MaxFlatLaps }

\* Lap times of a car without pit data running at 90.0 s, with laps at
\* exactly 1.2 times that pace (108.0 s) and beyond it (120.0 s)
PaceCells == { <<9000, 9000, NaN>>, <<10800, 10800, NaN>>, <<12000, 12000, NaN>> }

PaceTables ==
    { [k \in 1..Len(cs) |-> LapRow(k, cs[k])] :
        cs \in (SeqsUpTo(PaceCells, MaxLaps) \ {<<>>}) }

\* Lap times of a car lapping just under the 300 s limit (294.0 s and
\* 296.0 s), no pit time recorded
LimitCells == { <<29400, 29400, NaN>>, <<29600, 29600, NaN>> }

LimitTables ==
    { [k \in 1..Len(cs) |-> LapRow(k, cs[k])] :
        cs \in (SeqsUpTo(LimitCells, MaxLaps) \ {<<>>}) }

LapTables == MixedTables \cup FlatTables \cup PaceTables \cup LimitTables

RECURSIVE SeqSum(_)
SeqSum(s) == IF s = <<>> THEN 0 ELSE Head(s) + SeqSum(Tail(s))

RECURSIVE GCD(_, _)
GCD(m, n) == IF n = 0 THEN m ELSE GCD(n, m % n)

\* Series.median() of a series without NaN: the middle value, or the mean
\* of the two middle values; NaN for an empty series
Median(s) ==
    IF Len(s) = 0 THEN NaN
    ELSE LET o == SortSeq(s, LAMBDA x, y : x < y)
             n == Len(o)
         IN  IF n % 2 = 1 THEN o[(n + 1) \div 2]
             ELSE (o[n \div 2] + o[n \div 2 + 1]) \div 2

\* Series.dropna()
dropna(s) == SelectSeq(s, LAMBDA x : ~isna(x))

\* A table that keeps every row of a repeated lap number
DropDuplicates_KeepAll(t) == t

\* drop_duplicates("lap_number"): the first row of every lap number is kept
DropDuplicates(t) ==
    LET keep == {k \in 1..Len(t) : \A j \in 1..(k - 1) : t[j].lap # t[k].lap}
        F[k \in 0..Len(t)] ==
            IF k = 0 THEN <<>>
            ELSE IF k \in keep THEN Append(F[k - 1], t[k]) ELSE F[k - 1]
    IN  F[Len(t)]

\* build_lap_time(df) (lines 99-121)
build_lap_time(t) ==
    LET direct(r) == IF isna(r.lap_time_s) THEN NaN
                     ELSE IF r.lap_time_s < ms_cutoff THEN r.lap_time_s
                     ELSE r.lap_time_s \div 1000
        summed(r) == IF ~isna(direct(r)) THEN direct(r) ELSE r.sec_sum
        zeroed(r) == IF summed(r) = 0 THEN NaN ELSE summed(r)
        lt0 == [k \in 1..Len(t) |-> zeroed(t[k])]
        med == IF Len(dropna(lt0)) > 0 THEN Median(dropna(lt0)) ELSE default_lap_time
    IN  [k \in 1..Len(t) |-> IF isna(lt0[k]) THEN med ELSE lt0[k]]

\* df.sort_values("lap_number")
SortByLap(t) == SortSeq(t, LAMBDA r1, r2 : r1.lap_number < r2.lap_number)

\* clean_laps(df) (lines 124-152); is_pit is the is_pit_lap column the page
\* sets before the call
clean_laps(t, is_pit) ==
    LET flagged == [k \in 1..Len(t) |->
                       [lap |-> t[k].lap, lap_time_s |-> t[k].lap_time_s,
                        sec_sum |-> t[k].sec_sum, pit_time |-> t[k].pit_time,
                        is_pit_lap |-> is_pit[k]]]
        positive == SelectSeq(flagged, LAMBDA r : gt(r.lap, 0))
        unique == DropDuplicates(positive)
        lt0 == build_lap_time(unique)
        timed == [k \in 1..Len(unique) |->
                     [lap_number |-> unique[k].lap, lap_time_s |-> lt0[k],
                      pit_time |-> unique[k].pit_time,
                      is_pit_lap |-> unique[k].is_pit_lap]]
        real == SelectSeq(timed, LAMBDA r : r.lap_time_s > min_lap_time
                                              /\ r.lap_time_s < max_lap_time)
        missing == min_laps - Len(real)
        base == IF Len(real) > 0 THEN Median(Column(real, "lap_time_s"))
                ELSE default_lap_time
        last == IF Len(real) > 0 THEN SeriesMax(Column(real, "lap_number")) ELSE 0
        filler == [k \in 1..missing |->
                      [lap_number |-> last + k, lap_time_s |-> (base * 102) \div 100,
                       pit_time |-> 0, is_pit_lap |-> FALSE]]
    IN  SortByLap(IF Len(real) < min_laps THEN real \o filler ELSE real)

\* estimate_pit_loss with a slow-lap test that includes 1.2 times the median
estimate_pit_loss_Inclusive(t) ==
    LET pt == dropna(Column(t, "pit_time"))
        med == Median(Column(t, "lap_time_s"))
        slowlaps == SelectSeq(Column(t, "lap_time_s"), LAMBDA x : 10 * x >= 12 * med)
    IN  IF Len(pt) > 0 /\ Median(pt) > 0 THEN Median(pt)
        ELSE IF Len(slowlaps) > 0 THEN Median(slowlaps) - med
        ELSE default_pit_loss

\* estimate_pit_loss(df) (lines 155-168)
estimate_pit_loss(t) ==
    LET pt == dropna(Column(t, "pit_time"))
        med == Median(Column(t, "lap_time_s"))
        slowlaps == SelectSeq(Column(t, "lap_time_s"), LAMBDA x : 10 * x > 12 * med)
    IN  IF Len(pt) > 0 /\ Median(pt) > 0 THEN Median(pt)
        ELSE IF Len(slowlaps) > 0 THEN Median(slowlaps) - med
        ELSE default_pit_loss

\* The fraction an/d, bn/d in lowest terms
Reduced(an, bn, d) ==
    LET g == GCD(GCD(abs(an), abs(bn)), d)
    IN  [an |-> an \div g, bn |-> bn \div g, d |-> d \div g]

\* np.polyfit(x, y, 1): the least-squares line, a = an/d and b = bn/d
polyfit1(x, y) ==
    LET n == Len(x)
        Sx == SeqSum(x)
        Sy == SeqSum(y)
        Sxx == SeqSum([k \in 1..n |-> x[k] * x[k]])
        Sxy == SeqSum([k \in 1..n |-> x[k] * y[k]])
    IN  Reduced(Sy * Sxx - Sx * Sxy, n * Sxy - Sx * Sy, n * Sxx - Sx * Sx)

\* fit_degradation(df) (lines 171-180)
fit_degradation(t) ==
    LET base == SelectSeq(t, LAMBDA r : r.is_pit_lap = FALSE)
    IN  IF Len(base) < min_fit_laps
        THEN [an |-> Median(Column(base, "lap_time_s")), bn |-> default_slope, d |-> 1]
        ELSE polyfit1(Column(base, "lap_number"), Column(base, "lap_time_s"))

\* simulate(df, a, b, pit_loss) (lines 183-196): one row per stop count;
\* total_time_s is num / den
simulate(t, m, pl) ==
    LET laps == SeriesMax(Column(t, "lap_number"))
        seq == [k \in 1..laps |-> k]
        no_pit == laps * m.an + m.bn * SeqSum(seq)
    IN  [k \in 1..3 |->
            [Strategy |-> k - 1,
             total_time_s |-> [num |-> no_pit + (k - 1) * pl * m.d, den |-> m.d]]]

\* A selection that takes the last row of minimum total
idxmin_row_Last(r) ==
    LET k == SetMax({j \in 1..Len(r) :
                        \A h \in 1..Len(r) :
                            r[j].total_time_s.num <= r[h].total_time_s.num})
    IN  r[k]

\* res.loc[res["total_time_s"].idxmin()]: the first row of minimum total
idxmin_row(r) ==
    LET k == SetMin({j \in 1..Len(r) :
                        \A h \in 1..Len(r) :
                            r[j].total_time_s.num <= r[h].total_time_s.num})
    IN  r[k]

\* A car has been selected; has_pit_time tells whether the sector table
\* carries a pit_time column.  The other components are not running.
StrategyInit ==
    /\ spc = "selected"
    /\ \E t \in LapTables, has_pit_time \in BOOLEAN :
          car_df = [rows |-> t, has_pit_time |-> has_pit_time]
    /\ pit_loss = None
    /\ model = None
    /\ res = <<>>
    /\ best = None
    /\ pc = "idle" /\ load = None /\ df = <<>> /\ min_segment = 8 /\ i = 0
    /\ in_corner = FALSE /\ start_idx = None /\ corners = <<>> /\ result = None
    /\ bpc = "idle" /\ bload = None /\ bcols = {} /\ bdf = <<>> /\ bi = 0
    /\ events = <<>> /\ bresult = None
    /\ upc = "idle" /\ sectors_df = None /\ total_race_laps = 0 /\ ucar_df = <<>>
    /\ umodel = None /\ upit_loss = None /\ scenarios = None
    /\ secpc = "idle" /\ sdf = None /\ track_name = None /\ sector_summary = None
    /\ run = 1 /\ first_result = None
    /\ build_pc = "idle" /\ track_i = 0 /\ sectors = None /\ track_corners = None
    /\ braking_points = None /\ metadata = <<>> /\ out_file = None
    /\ telemetry = None /\ wpc = None /\ wsectors = None
    /\ wdf = None /\ wi = None /\ wevents = None /\ wbraking = None
    /\ lpc = "idle" /\ ts_dtype = None /\ raw_df = <<>> /\ df_pivot = <<>>
    /\ loaded = None

\* car_df.get("pit_time", 0) is the int 0 when the table has no pit_time
\* column, and 0.fillna raises AttributeError: the page stops (line 213)
PitFlagFails ==
    /\ spc = "selected"
    /\ ~car_df.has_pit_time
    /\ spc' = "failed"
    /\ UNCHANGED <<car_df, pit_loss, model, res, best>>
    /\ UNCHANGED <<cornerVars, brakingVars, utilsVars, sectorVars, rerunVars, builderVars, workerVars, loaderVars>>

\* is_pit_lap is set and the table cleaned (lines 213-214)
CleanLaps ==
    /\ spc = "selected"
    /\ car_df.has_pit_time
    /\ LET t == car_df.rows
           is_pit == [k \in 1..Len(t) |->
                         (IF isna(t[k].pit_time) THEN 0 ELSE t[k].pit_time)
                             > pit_flag_threshold]
       IN  car_df' = clean_laps(t, is_pit)
    /\ spc' = "cleaned"
    /\ UNCHANGED <<pit_loss, model, res, best>>
    /\ UNCHANGED <<cornerVars, brakingVars, utilsVars, sectorVars, rerunVars, builderVars, workerVars, loaderVars>>

\* pit_loss = estimate_pit_loss(car_df) (line 219)
EstimatePitLoss ==
    /\ spc = "cleaned"
    /\ pit_loss' = estimate_pit_loss(car_df)
    /\ spc' = "estimated"
    /\ UNCHANGED <<car_df, model, res, best>>
    /\ UNCHANGED <<cornerVars, brakingVars, utilsVars, sectorVars, rerunVars, builderVars, workerVars, loaderVars>>

\* a, b = fit_degradation(car_df) (line 220)
FitDegradation ==
    /\ spc = "estimated"
    /\ model' = fit_degradation(car_df)
    /\ spc' = "fitted"
    /\ UNCHANGED <<car_df, pit_loss, res, best>>
    /\ UNCHANGED <<cornerVars, brakingVars, utilsVars, sectorVars, rerunVars, builderVars, workerVars, loaderVars>>

\* res = simulate(car_df, a, b, pit_loss) and the choice of the best row
\* (lines 234-237), for a fit whose intercept is a number
Simulate ==
    /\ spc = "fitted"
    /\ ~isna(model.an)
    /\ res' = simulate(car_df, model, pit_loss)
    /\ best' = idxmin_row(res')
    /\ spc' = "done"
    /\ UNCHANGED <<car_df, pit_loss, model>>
    /\ UNCHANGED <<cornerVars, brakingVars, utilsVars, sectorVars, rerunVars, builderVars, workerVars, loaderVars>>

\* Every lap of the table is a pit lap: the median of no laps is NaN, every
\* total is NaN and idxmin has no row to give; res.loc fails (lines 175, 237)
SimulateFails ==
    /\ spc = "fitted"
    /\ isna(model.an)
    /\ spc' = "failed"
    /\ UNCHANGED <<car_df, pit_loss, model, res, best>>
    /\ UNCHANGED <<cornerVars, brakingVars, utilsVars, sectorVars, rerunVars, builderVars, workerVars, loaderVars>>

StrategyNext ==
    \/ PitFlagFails
    \/ CleanLaps
    \/ EstimatePitLoss
    \/ FitDegradation
    \/ Simulate
    \/ SimulateFails

StrategySpec == StrategyInit /\ [][StrategyNext]_vars

----------------------------------------------------------------------------
(* Properties of the strategy simulator                                    *)

\* Laps completed since the last stop before `lap` (or since the start),
\* for stops made at the end of the laps in S: 1 on the lap after a stop
LapAge(lap, S) == lap - SetMax({s \in S : s < lap} \cup {0})

\* Numerator, over model.d, of the race time with stops at the laps in S:
\* the sum of a + b * lap_age over the race laps, plus pit_loss per stop
StintTotal(laps, S) ==
    SeqSum([lap \in 1..laps |-> model.an + model.bn * LapAge(lap, S)])
        + Cardinality(S) * pit_loss * model.d

\* C9 as stated: for each stop count k in {0, 1, 2} the total of the
\* comparison table is the sum of a + b * lap_age over the race laps, the
\* lap age restarting at 1 after each of k stops, plus pit_loss * k
C9_TotalsResetLapAge ==
    (spc = "done") =>
        LET laps == SeriesMax(Column(car_df, "lap_number"))
        IN  \A k \in 1..Len(res) :
                \E S \in SUBSET (1..(laps - 1)) :
                    /\ Cardinality(S) = res[k].Strategy
                    /\ res[k].total_time_s.num = StintTotal(laps, S)

\* The cleaned table of the scenario: 20 laps of 90.0 s, no pit time
FlatScenario(t) ==
    /\ Len(t) = 20
    /\ \A k \in 1..Len(t) :
          /\ t[k].lap_number = k
          /\ t[k].lap_time_s = 9000
          /\ isna(t[k].pit_time)
          /\ ~t[k].is_pit_lap

\* C10 as stated: on 20 flat laps of 90.0 s without pit data the fitted
\* slope is 0.02, the pit loss is the default 20.0 and 0 stops is best
C10_FlatSeriesDefaults ==
    (spc = "done" /\ FlatScenario(car_df)) =>
        /\ model.bn = 2 * model.d
        /\ pit_loss = 2000
        /\ best.Strategy = 0

\* C11 as stated: the degradation slope b the fit returns, least-squares
\* or few-laps fallback, is strictly positive for every lap table
C11_SlopeStrictlyPositive ==
    (spc \in {"fitted", "done"}) => model.bn > 0

\* The positive values of the pit_time column of table t
PositivePitTimes(t) == SelectSeq(Column(t, "pit_time"), LAMBDA x : gt(x, 0))

\* C12 as stated: when the pit_time column of the lap table has at least
\* one positive value, the estimated pit loss is the median of the positive
\* pit-time values; zero and absent entries do not enter the median
C12_MedianOfPositivePitTimes ==
    (spc \in {"estimated", "fitted", "done"} /\ Len(PositivePitTimes(car_df)) > 0) =>
        pit_loss = Median(PositivePitTimes(car_df))

\* The lap times of table t that satisfy the slow-lap test `slow`
SlowLaps(t, inclusive) ==
    LET times == Column(t, "lap_time_s")
        med == Median(times)
    IN  SelectSeq(times, LAMBDA x : IF inclusive THEN 10 * x >= 12 * med
                                    ELSE 10 * x > 12 * med)

\* The slow-lap estimate of the pit loss of table t: the median of the slow
\* laps minus the overall median, 20.0 s when no lap is slow
SlowLapEstimate(t, inclusive) ==
    IF Len(SlowLaps(t, inclusive)) > 0
    THEN Median(SlowLaps(t, inclusive)) - Median(Column(t, "lap_time_s"))
    ELSE 2000

----------------------------------------------------------------------------
(* utils.pit_stop_optimizer.build_pit_scenarios.  Times are in hundredths  *)
(* of a second.  A raw lap time is a tagged tuple: <<"num", v>> a numeric  *)
(* string of v, <<"ms", m, s>> the text M:SS.ss, <<"hms", h, m, s>> the    *)
(* text H:MM:SS.ss, <<"bad">> a text that is no time, <<"nan">> no value.  *)

\* if len(non_pit) < 3
min_fit_laps_utils == 3

\* if len(car_df) < 4
min_rows_utils == 4

\* default_pit_loss_s=25.0
default_pit_loss_s == 2500

\* car_df["lap_time_s"] > 1.25 * med, as 4 * lap_time_s > 5 * med
pit_heuristic_num == 5

pit_heuristic_den == 4

MaxUtilLaps == 5

MaxRaceLaps == 5

\* parse_lap_time_to_seconds(x) (lines 10-29)
parse_lap_time_to_seconds(x) ==
    CASE x[1] = "nan" -> NaN
      [] x[1] = "num" -> x[2]
      [] x[1] = "hms" -> x[2] * 360000 + x[3] * 6000 + x[4]
      [] x[1] = "ms"  -> x[2] * 6000 + x[3]
      [] OTHER        -> NaN

\* (raw lap time, pit column value) of one input row: a 88.0 s lap given as
\* a number, a 92.0 s lap given as 1:32.00 without pit value, a 132.0 s pit
\* lap given as 0:02:12.00 with a pit time of 32.0 s, a lap with no
\* readable time
UtilCells ==
    { << <<"num", 8800>>, 0 >>, << <<"ms", 1, 3200>>, NaN >>,
      << <<"hms", 0, 2, 1200>>, 3200 >>, << <<"bad">>, 0 >> }

\* The lap column of the row at position k: consecutive numbers, or a
\* table whose first lap number cannot be read
UtilNumberings == {"consecutive", "first_unreadable"}

UtilLapAt(numbering, k) ==
    IF numbering = "first_unreadable" /\ k = 1 THEN NaN ELSE k

\* The rows of sectors_df for the requested track and car (lines 69, 101)
UtilTables ==
    { [k \in 1..Len(cs) |->
          [lap |-> UtilLapAt(nb, k), lap_time |-> cs[k][1], pit_time |-> cs[k][2]]] :
        cs \in SeqsUpTo(UtilCells, MaxUtilLaps), nb \in UtilNumberings }

\* The columns of sectors_df, one name standing for each candidate list:
\* all present, no pit column, or one of the three mapped columns missing
UtilColumnSets ==
    { {"lap", "lap_time", "number", "pit_time"}, {"lap", "lap_time", "number"},
      {"lap_time", "number", "pit_time"}, {"lap", "number", "pit_time"},
      {"lap", "lap_time", "pit_time"} }

RaceLaps == 3..MaxRaceLaps

\* Lines 107-122: lap_time_s, lap_number and is_pit_lap are added
prepare_car(t, cols) ==
    LET times == [k \in 1..Len(t) |-> parse_lap_time_to_seconds(t[k].lap_time)]
        med == Median(dropna(times))
        is_pit(k) ==
            IF "pit_time" \in cols
            THEN (IF isna(t[k].pit_time) THEN 0 ELSE t[k].pit_time) # 0
            ELSE gt(pit_heuristic_den * times[k],
                    IF isna(med) THEN NaN ELSE pit_heuristic_num * med)
    IN  [k \in 1..Len(t) |->
            [lap_number |-> t[k].lap, lap_time_s |-> times[k],
             pit_time |-> t[k].pit_time, is_pit_lap |-> is_pit(k)]]

\* car_df.dropna(subset=["lap_number", "lap_time_s"])
dropna_rows(t) == SelectSeq(t, LAMBDA r : ~isna(r.lap_number) /\ ~isna(r.lap_time_s))

\* The (None, None) of fit_degradation_model
NoModel == [a |-> None, b |-> None]

\* fit_degradation_model(car_df) (lines 35-49): the line is an/d, bn/d
fit_degradation_model(t) ==
    LET non_pit == dropna_rows(SelectSeq(t, LAMBDA r : ~r.is_pit_lap))
    IN  IF Len(non_pit) < min_fit_laps_utils THEN NoModel
        ELSE polyfit1(Column(non_pit, "lap_number"), Column(non_pit, "lap_time_s"))

\* estimate_pit_loss(car_df, default) of utils (lines 55-62).  The first
\* column with "pit" in its name is the table's own pit column when it has
\* one and else the boolean is_pit_lap column, when the table has that one:
\* the median of booleans is that of 0.0 and 1.0
utils_estimate_pit_loss(t, cols, default) ==
    LET pit_vals ==
            IF "pit_time" \in cols THEN dropna(Column(t, "pit_time"))
            ELSE IF "is_pit_lap" \in cols
                 THEN [k \in 1..Len(t) |-> IF t[k].is_pit_lap THEN 100 ELSE 0]
                 ELSE <<>>
    IN  IF Len(pit_vals) > 0 THEN Median(pit_vals) ELSE default

\* Variant: the tyres are new on the stop lap itself
scenario_rows_FreshAtStop(m, pl, T) ==
    LET stops == IF T > 3 THEN T - 3 ELSE 0
        age(lap, stop_lap) == IF lap >= stop_lap THEN lap - stop_lap ELSE lap
        stint(lap, stop_lap) == m.an + m.bn * age(lap, stop_lap)
        pit_row(lap, stop_lap) ==
            [lap |-> lap, type |-> [kind |-> "pit@", stop_lap |-> stop_lap],
             time_s |-> [num |-> IF lap # stop_lap THEN stint(lap, stop_lap)
                                 ELSE stint(lap, stop_lap) + pl * m.d,
                         den |-> m.d]]
        base_row(lap) ==
            [lap |-> lap, type |-> [kind |-> "baseline", stop_lap |-> 0],
             time_s |-> [num |-> m.an + m.bn * lap, den |-> m.d]]
    IN  [r \in 1..((stops + 1) * T) |->
            LET block == (r - 1) \div T
                lap == ((r - 1) % T) + 1
            IN  IF block < stops THEN pit_row(lap, block + 2) ELSE base_row(lap)]

\* Lines 138-169: total_race_laps rows for every stop lap of
\* range(2, total_race_laps - 1), then the baseline's; time_s is num / den
scenario_rows(m, pl, T) ==
    LET stops == IF T > 3 THEN T - 3 ELSE 0
        age(lap, stop_lap) == IF lap > stop_lap THEN lap - stop_lap ELSE lap
        stint(lap, stop_lap) == m.an + m.bn * age(lap, stop_lap)
        pit_row(lap, stop_lap) ==
            [lap |-> lap, type |-> [kind |-> "pit@", stop_lap |-> stop_lap],
             time_s |-> [num |-> IF lap # stop_lap THEN stint(lap, stop_lap)
                                 ELSE stint(lap, stop_lap) + pl * m.d,
                         den |-> m.d]]
        base_row(lap) ==
            [lap |-> lap, type |-> [kind |-> "baseline", stop_lap |-> 0],
             time_s |-> [num |-> m.an + m.bn * lap, den |-> m.d]]
    IN  [r \in 1..((stops + 1) * T) |->
            LET block == (r - 1) \div T
                lap == ((r - 1) % T) + 1
            IN  IF block < stops THEN pit_row(lap, block + 2) ELSE base_row(lap)]

\* build_pit_scenarios is called with the rows of one track and car.  The
\* other components are not running.
ScenarioInit ==
    /\ upc = "start"
    /\ \E t \in UtilTables, cols \in UtilColumnSets :
          sectors_df = [columns |-> cols, rows |-> t]
    /\ total_race_laps \in RaceLaps
    /\ ucar_df = <<>>
    /\ umodel = None
    /\ upit_loss = None
    /\ scenarios = None
    /\ pc = "idle" /\ load = None /\ df = <<>> /\ min_segment = 8 /\ i = 0
    /\ in_corner = FALSE /\ start_idx = None /\ corners = <<>> /\ result = None
    /\ bpc = "idle" /\ bload = None /\ bcols = {} /\ bdf = <<>> /\ bi = 0
    /\ events = <<>> /\ bresult = None
    /\ spc = "idle" /\ car_df = <<>> /\ pit_loss = None /\ model = None
    /\ res = <<>> /\ best = None
    /\ secpc = "idle" /\ sdf = None /\ track_name = None /\ sector_summary = None
    /\ run = 1 /\ first_result = None
    /\ build_pc = "idle" /\ track_i = 0 /\ sectors = None /\ track_corners = None
    /\ braking_points = None /\ metadata = <<>> /\ out_file = None
    /\ telemetry = None /\ wpc = None /\ wsectors = None
    /\ wdf = None /\ wi = None /\ wevents = None /\ wbraking = None
    /\ lpc = "idle" /\ ts_dtype = None /\ raw_df = <<>> /\ df_pivot = <<>>
    /\ loaded = None

\* No lap, lap-time or car column is found: an empty table (lines 72-99)
ScenariosMissingColumn ==
    /\ upc = "start"
    /\ ~({"lap", "lap_time", "number"} \subseteq sectors_df.columns)
    /\ scenarios' = <<>>
    /\ upc' = "done"
    /\ UNCHANGED <<sectors_df, total_race_laps, ucar_df, umodel, upit_loss>>
    /\ UNCHANGED <<cornerVars, brakingVars, strategyVars, sectorVars, rerunVars, builderVars, workerVars, loaderVars>>

\* The car has no row: an empty table (lines 101-104)
ScenariosNoCar ==
    /\ upc = "start"
    /\ {"lap", "lap_time", "number"} \subseteq sectors_df.columns
    /\ sectors_df.rows = <<>>
    /\ scenarios' = <<>>
    /\ upc' = "done"
    /\ UNCHANGED <<sectors_df, total_race_laps, ucar_df, umodel, upit_loss>>
    /\ UNCHANGED <<cornerVars, brakingVars, strategyVars, sectorVars, rerunVars, builderVars, workerVars, loaderVars>>

\* Lap times parsed, pit laps flagged, unreadable rows dropped (lines 107-125)
PrepareCar ==
    /\ upc = "start"
    /\ {"lap", "lap_time", "number"} \subseteq sectors_df.columns
    /\ sectors_df.rows # <<>>
    /\ ucar_df' = dropna_rows(prepare_car(sectors_df.rows, sectors_df.columns))
    /\ upc' = "prepared"
    /\ UNCHANGED <<sectors_df, total_race_laps, umodel, upit_loss, scenarios>>
    /\ UNCHANGED <<cornerVars, brakingVars, strategyVars, sectorVars, rerunVars, builderVars, workerVars, loaderVars>>

\* Fewer than 4 rows are left: an empty table (lines 126-127)
ScenariosTooFewRows ==
    /\ upc = "prepared"
    /\ Len(ucar_df) < min_rows_utils
    /\ scenarios' = <<>>
    /\ upc' = "done"
    /\ UNCHANGED <<sectors_df, total_race_laps, ucar_df, umodel, upit_loss>>
    /\ UNCHANGED <<cornerVars, brakingVars, strategyVars, sectorVars, rerunVars, builderVars, workerVars, loaderVars>>

\* a, b = fit_degradation_model(car_df) (line 130)
FitDegradationModel ==
    /\ upc = "prepared"
    /\ Len(ucar_df) >= min_rows_utils
    /\ umodel' = fit_degradation_model(ucar_df)
    /\ upc' = "fitted"
    /\ UNCHANGED <<sectors_df, total_race_laps, ucar_df, upit_loss, scenarios>>
    /\ UNCHANGED <<cornerVars, brakingVars, strategyVars, sectorVars, rerunVars, builderVars, workerVars, loaderVars>>

\* No model was fitted: an empty table (lines 131-132)
ScenariosNoModel ==
    /\ upc = "fitted"
    /\ umodel = NoModel
    /\ scenarios' = <<>>
    /\ upc' = "done"
    /\ UNCHANGED <<sectors_df, total_race_laps, ucar_df, umodel, upit_loss>>
    /\ UNCHANGED <<cornerVars, brakingVars, strategyVars, sectorVars, rerunVars, builderVars, workerVars, loaderVars>>

\* The pit loss and the scenario table (lines 135-169)
BuildScenarios ==
    /\ upc = "fitted"
    /\ umodel # NoModel
    /\ upit_loss' = utils_estimate_pit_loss(
                        ucar_df, sectors_df.columns \cup {"is_pit_lap"},
                        default_pit_loss_s)
    /\ scenarios' = scenario_rows(umodel, upit_loss', total_race_laps)
    /\ upc' = "done"
    /\ UNCHANGED <<sectors_df, total_race_laps, ucar_df, umodel>>
    /\ UNCHANGED <<cornerVars, brakingVars, strategyVars, sectorVars, rerunVars, builderVars, workerVars, loaderVars>>

ScenarioNext ==
    \/ ScenariosMissingColumn
    \/ ScenariosNoCar
    \/ PrepareCar
    \/ ScenariosTooFewRows
    \/ FitDegradationModel
    \/ ScenariosNoModel
    \/ BuildScenarios

ScenarioSpec == ScenarioInit /\ [][ScenarioNext]_vars

----------------------------------------------------------------------------
(* Properties of the degradation fit                                       *)

\* The rows of table t that are not flagged as pit laps
NonPitLaps(t) == SelectSeq(t, LAMBDA r : ~r.is_pit_lap)

\* C14 as stated, of fit_degradation_model: the fit uses the laps not
\* flagged as pit laps; with at least 4 of them it returns their
\* least-squares line, with fewer than 4 it returns a = the median lap time
\* and the fixed slope 0.02, never no model
C14_FitNeedsFourLaps ==
    (upc = "fitted") =>
        LET base == NonPitLaps(ucar_df)
        IN  IF Len(base) >= 4
            THEN umodel = polyfit1(Column(base, "lap_number"), Column(base, "lap_time_s"))
            ELSE umodel = [an |-> Median(Column(base, "lap_time_s")), bn |-> 2, d |-> 1]

----------------------------------------------------------------------------
(* simulate and the selection of the best row, as functions of their       *)
(* arguments (df, a, b, pit_loss)                                          *)

MaxSimLaps == 8

MaxSimSlope == 2

\* Cleaned tables of 5 to MaxSimLaps laps; simulate reads the lap numbers
SimTables ==
    { [k \in 1..n |-> [lap_number |-> k, lap_time_s |-> 9000,
                       pit_time |-> NaN, is_pit_lap |-> FALSE]] :
        n \in min_laps..MaxSimLaps }

\* Lines a + b * lap: an intercept of 90.0 s or none (NaN), slopes of
\* hundredths of a second per lap
SimModels ==
    { [an |-> an, bn |-> bn, d |-> 1] :
        an \in {9000, NaN}, bn \in (-MaxSimSlope)..MaxSimSlope }

\* Pit losses: none, 10.0 s, 20.0 s
SimPitLosses == {0, 1000, default_pit_loss}

\* simulate is about to be called.  The other components are not running.
SimulateInit ==
    /\ spc = "fitted"
    /\ car_df \in SimTables
    /\ model \in SimModels
    /\ pit_loss \in SimPitLosses
    /\ res = <<>>
    /\ best = None
    /\ pc = "idle" /\ load = None /\ df = <<>> /\ min_segment = 8 /\ i = 0
    /\ in_corner = FALSE /\ start_idx = None /\ corners = <<>> /\ result = None
    /\ bpc = "idle" /\ bload = None /\ bcols = {} /\ bdf = <<>> /\ bi = 0
    /\ events = <<>> /\ bresult = None
    /\ upc = "idle" /\ sectors_df = None /\ total_race_laps = 0 /\ ucar_df = <<>>
    /\ umodel = None /\ upit_loss = None /\ scenarios = None
    /\ secpc = "idle" /\ sdf = None /\ track_name = None /\ sector_summary = None
    /\ run = 1 /\ first_result = None
    /\ build_pc = "idle" /\ track_i = 0 /\ sectors = None /\ track_corners = None
    /\ braking_points = None /\ metadata = <<>> /\ out_file = None
    /\ telemetry = None /\ wpc = None /\ wsectors = None
    /\ wdf = None /\ wi = None /\ wevents = None /\ wbraking = None
    /\ lpc = "idle" /\ ts_dtype = None /\ raw_df = <<>> /\ df_pivot = <<>>
    /\ loaded = None

SimulateNext ==
    \/ Simulate
    \/ SimulateFails

SimulateSpec == SimulateInit /\ [][SimulateNext]_vars

\* The totals of the comparison table, over their common denominator
Totals(r) == [k \in 1..Len(r) |-> r[k].total_time_s.num]

\* C15: the best strategy is a row of the comparison table whose total time
\* is the minimum, and of the rows that tie for the minimum it is the one
\* with the fewest stops
C15_BestIsMinimumFewestStops ==
    (spc = "done") =>
        /\ \E k \in 1..Len(res) : best = res[k]
        /\ \A k \in 1..Len(res) :
              /\ best.total_time_s.num <= Totals(res)[k]
              /\ (Totals(res)[k] = best.total_time_s.num) =>
                     best.Strategy <= res[k].Strategy

\* A best row was selected from a table in which several rows tie for the
\* minimum total
C15_Witness ==
    /\ spc = "done"
    /\ \E j, k \in 1..Len(res) :
          /\ j # k
          /\ Totals(res)[j] = Totals(res)[k]
          /\ \A h \in 1..Len(res) : Totals(res)[j] <= Totals(res)[h]
    /\ best.Strategy = 0

----------------------------------------------------------------------------
(* Properties of clean_laps                                                *)

\* The time an input row carries itself: its lap time, else the sum of its
\* sectors; 0 when it carries none
RawTime(r) == IF ~isna(r.lap_time_s) THEN r.lap_time_s ELSE r.sec_sum

\* The first row of input table t with lap number n
FirstRowOf(t, n) == t[SetMin({k \in 1..Len(t) : t[k].lap = n})]

Plausible(x) == x > 2000 /\ x < 30000

\* `out` is a cleaned form of input table t: its first n rows are laps of
\* t, the rest are filler laps
CleanedWithFiller(t, out, n) ==
    LET laps == Column(out, "lap_number")
        kept == SubSeq(out, 1, n)
        filler == SubSeq(out, n + 1, Len(out))
        base == IF n > 0 THEN Median(Column(kept, "lap_time_s")) ELSE 12000
        last == IF n > 0 THEN laps[n] ELSE 0
    IN  /\ Len(filler) = (IF n < 5 THEN 5 - n ELSE 0)
        /\ \A k \in 1..n :
              /\ \E j \in 1..Len(t) : t[j].lap = laps[k]
              /\ Plausible(kept[k].lap_time_s)
              /\ RawTime(FirstRowOf(t, laps[k])) # 0 =>
                     kept[k].lap_time_s = RawTime(FirstRowOf(t, laps[k]))
        /\ \A j \in 1..Len(t) :
              LET raw == RawTime(FirstRowOf(t, t[j].lap))
                  survives == t[j].lap \in {laps[k] : k \in 1..n}
              IN  /\ (t[j].lap > 0 /\ Plausible(raw)) => survives
                  /\ (raw # 0 /\ ~Plausible(raw)) => ~survives
        /\ \A k \in 1..Len(filler) :
              /\ filler[k].lap_number = last + k
              /\ filler[k].lap_time_s * 100 = base * 102

\* C16: after clean_laps the lap table has unique, positive lap numbers in
\* ascending order and at least 5 laps: of a repeated lap number one row is
\* left, laps whose time is outside 20-300 s are gone, and only when fewer
\* than 5 laps survive are filler laps appended, numbered consecutively
\* after the last surviving lap and timed at 1.02 times the median of the
\* surviving laps (of 120 s when none survives)
C16_CleanLaps ==
    [][(spc = "selected" /\ spc' = "cleaned") =>
          LET laps == Column(car_df', "lap_number")
          IN  /\ \A k \in 1..Len(laps) : laps[k] > 0
              /\ \A j, k \in 1..Len(laps) : j < k => laps[j] < laps[k]
              /\ Len(laps) >= 5
              /\ \E n \in 0..Len(laps) : CleanedWithFiller(car_df.rows, car_df', n)]_vars

\* A cleaned table: lap 1 survived, lap 2 was discarded, lap 3 survived and
\* three filler laps 4, 5, 6 follow at 1.02 times the median of 88.0 and
\* 132.0 s
C16_Witness ==
    /\ spc = "cleaned"
    /\ Column(car_df, "lap_number") = <<1, 3, 4, 5, 6>>
    /\ Column(car_df, "lap_time_s") = <<8800, 13200, 11220, 11220, 11220>>

----------------------------------------------------------------------------
(* SectorDetector.detect_sectors.  Sector times are in seconds.  A float   *)
(* computed from them is the fraction [num, den] in lowest terms, den > 0; *)
(* NaN is the fraction with den = 0.                                       *)

MaxSectorRows == 2

\* A cell that is no number: pd.to_numeric(errors="coerce") makes it NaN
Unreadable == -888888

to_numeric(s) == [k \in 1..Len(s) |-> IF s[k] = Unreadable THEN NaN ELSE s[k]]

\* A None in a place that otherwise holds a record or a series
NoneValue == [is |-> None]

FracNaN == [num |-> 0, den |-> 0]

Frac(n, d) ==
    LET g == GCD(abs(n), d)
    IN  [num |-> n \div g, den |-> d \div g]

FracAdd(p, q) ==
    IF p.den = 0 \/ q.den = 0 THEN FracNaN
    ELSE Frac(p.num * q.den + q.num * p.den, p.den * q.den)

\* p / q for a positive q
FracDiv(p, q) ==
    IF p.den = 0 THEN FracNaN ELSE Frac(p.num * q.den, p.den * q.num)

\* p > 0 on floats: false for NaN
FracPositive(p) == p.den > 0 /\ p.num > 0

\* Series.mean(): NaN cells are skipped, NaN when none is left
SeriesMean(s) ==
    LET v == dropna(s)
    IN  IF Len(v) = 0 THEN FracNaN ELSE Frac(SeqSum(v), Len(v))

\* The square of Series.std() (ddof = 1): NaN for fewer than 2 values
SeriesVar(s) ==
    LET v == dropna(s)
        n == Len(v)
        Sxx == SeqSum([k \in 1..n |-> v[k] * v[k]])
    IN  IF n < 2 THEN FracNaN
        ELSE Frac(n * Sxx - SeqSum(v) * SeqSum(v), n * (n - 1))

SectorTracks == {"barber", "cota"}

\* (S1, S2, S3) times of one lap in the s<N>_seconds columns: two full
\* laps, a lap without S1, a lap of zeros, a lap whose S1 is text
SectorCells ==
    { <<30, 40, 30>>, <<32, 40, 28>>, <<NaN, 40, 30>>, <<0, 0, 0>>,
      <<Unreadable, 44, 30>> }

\* The same lap in the s<N> columns, which carry another timing of it
ShortAlias(v) == IF v \in {NaN, Unreadable} THEN 31 ELSE v + 1

SectorRow(track, cell) ==
    [track |-> track,
     s1_seconds |-> cell[1], s2_seconds |-> cell[2], s3_seconds |-> cell[3],
     s1 |-> ShortAlias(cell[1]), s2 |-> ShortAlias(cell[2]),
     s3 |-> ShortAlias(cell[3])]

SectorTables ==
    { [k \in 1..Len(cs) |-> SectorRow(cs[k][1], cs[k][2])] :
        cs \in SeqsUpTo(SectorTracks \X SectorCells, MaxSectorRows) }

\* The names under which sector N may be present in the table
Aliases(N) ==
    CASE N = 1 -> <<"s1_seconds", "s1">>
      [] N = 2 -> <<"s2_seconds", "s2">>
      [] N = 3 -> <<"s3_seconds", "s3">>

\* The columns of the table: of each sector both names, one, or none
SectorColumnSets ==
    { {"track"} \cup c1 \cup c2 \cup c3 :
        c1 \in SUBSET {"s1_seconds", "s1"}, c2 \in SUBSET {"s2_seconds", "s2"},
        c3 \in SUBSET {"s3_seconds", "s3"} }

\* A column lookup that stands in zeros for a sector without column
get_numeric_col_ZeroFill(t, cols, candidates) ==
    IF candidates[1] \in cols THEN [values |-> to_numeric(Column(t, candidates[1]))]
    ELSE IF candidates[2] \in cols THEN [values |-> to_numeric(Column(t, candidates[2]))]
    ELSE [values |-> [k \in 1..Len(t) |-> 0]]

\* _get_numeric_col(df, candidates) (lines 20-27), for two candidates: the
\* Series [values |-> ...] of the first candidate that is a column, or None
get_numeric_col(t, cols, candidates) ==
    IF candidates[1] \in cols THEN [values |-> to_numeric(Column(t, candidates[1]))]
    ELSE IF candidates[2] \in cols THEN [values |-> to_numeric(Column(t, candidates[2]))]
    ELSE NoneValue

\* self.df[self.df["track"] == track_name] (line 34)
track_rows(t, name) == SelectSeq(t, LAMBDA r : r.track = name)

\* One entry of sector_summary (lines 47-66); std_time is the square root
\* of var_time
SectorStats(s) ==
    [avg_time |-> SeriesMean(s.values), var_time |-> SeriesVar(s.values),
     min |-> SeriesMin(s.values), max |-> SeriesMax(s.values)]

\* A total that leaves S3 out
sector_total_FirstTwo(a1, a2, a3) == FracAdd(a1, a2)

\* total (lines 68-72)
sector_total(a1, a2, a3) == FracAdd(FracAdd(a1, a2), a3)

\* Lines 74-81: the distance_ratio of every sector is set
WithRatio(stats, total) ==
    [avg_time |-> stats.avg_time, var_time |-> stats.var_time,
     min |-> stats.min, max |-> stats.max,
     distance_ratio |-> IF FracPositive(total)
                        THEN FracDiv(stats.avg_time, total) ELSE NoneValue]

\* The dict of lines 47-83 for the three resolved series
sector_summary_of(s1, s2, s3) ==
    LET st1 == SectorStats(s1)
        st2 == SectorStats(s2)
        st3 == SectorStats(s3)
        total == sector_total(st1.avg_time, st2.avg_time, st3.avg_time)
    IN  [S1 |-> WithRatio(st1, total), S2 |-> WithRatio(st2, total),
         S3 |-> WithRatio(st3, total)]

\* The detector has been constructed: self.df is loaded, its column names
\* lowercased, and detect_sectors is called for a track.  The other
\* components are not running.
SectorInit ==
    /\ secpc = "start"
    /\ \E t \in SectorTables, cols \in SectorColumnSets :
          sdf = [columns |-> cols, rows |-> t]
    /\ track_name \in SectorTracks
    /\ sector_summary = None
    /\ pc = "idle" /\ load = None /\ df = <<>> /\ min_segment = 8 /\ i = 0
    /\ in_corner = FALSE /\ start_idx = None /\ corners = <<>> /\ result = None
    /\ bpc = "idle" /\ bload = None /\ bcols = {} /\ bdf = <<>> /\ bi = 0
    /\ events = <<>> /\ bresult = None
    /\ spc = "idle" /\ car_df = <<>> /\ pit_loss = None /\ model = None
    /\ res = <<>> /\ best = None
    /\ upc = "idle" /\ sectors_df = None /\ total_race_laps = 0 /\ ucar_df = <<>>
    /\ umodel = None /\ upit_loss = None /\ scenarios = None
    /\ run = 1 /\ first_result = None
    /\ build_pc = "idle" /\ track_i = 0 /\ sectors = None /\ track_corners = None
    /\ braking_points = None /\ metadata = <<>> /\ out_file = None
    /\ telemetry = None /\ wpc = None /\ wsectors = None
    /\ wdf = None /\ wi = None /\ wevents = None /\ wbraking = None
    /\ lpc = "idle" /\ ts_dtype = None /\ raw_df = <<>> /\ df_pivot = <<>>
    /\ loaded = None

\* The track has no row: None (lines 34-37)
DetectNoRows ==
    /\ secpc = "start"
    /\ track_rows(sdf.rows, track_name) = <<>>
    /\ sector_summary' = NoneValue
    /\ secpc' = "done"
    /\ UNCHANGED <<sdf, track_name>>
    /\ UNCHANGED <<cornerVars, brakingVars, strategyVars, utilsVars, rerunVars, builderVars, workerVars, loaderVars>>

\* A sector has no column under either name: None (lines 39-45)
DetectMissingSector ==
    /\ secpc = "start"
    /\ LET track_df == track_rows(sdf.rows, track_name)
       IN  /\ track_df # <<>>
           /\ \E N \in 1..3 : get_numeric_col(track_df, sdf.columns, Aliases(N)) = NoneValue
    /\ sector_summary' = NoneValue
    /\ secpc' = "done"
    /\ UNCHANGED <<sdf, track_name>>
    /\ UNCHANGED <<cornerVars, brakingVars, strategyVars, utilsVars, rerunVars, builderVars, workerVars, loaderVars>>

\* The summary of the three sectors (lines 47-83)
DetectSummary ==
    /\ secpc = "start"
    /\ LET track_df == track_rows(sdf.rows, track_name)
           s1_series == get_numeric_col(track_df, sdf.columns, Aliases(1))
           s2_series == get_numeric_col(track_df, sdf.columns, Aliases(2))
           s3_series == get_numeric_col(track_df, sdf.columns, Aliases(3))
       IN  /\ track_df # <<>>
           /\ s1_series # NoneValue /\ s2_series # NoneValue /\ s3_series # NoneValue
           /\ sector_summary' = sector_summary_of(s1_series, s2_series, s3_series)
    /\ secpc' = "done"
    /\ UNCHANGED <<sdf, track_name>>
    /\ UNCHANGED <<cornerVars, brakingVars, strategyVars, utilsVars, rerunVars, builderVars, workerVars, loaderVars>>

SectorNext ==
    \/ DetectNoRows
    \/ DetectMissingSector
    \/ DetectSummary

SectorSpec == SectorInit /\ [][SectorNext]_vars

----------------------------------------------------------------------------
(* Properties of the sector aggregator                                     *)

SectorNames == {"S1", "S2", "S3"}

\* p = q * r on fractions with positive denominators
FracIsProduct(p, q, r) == p.num * q.den * r.den = q.num * r.num * p.den

\* C17: in a summary, when the sum of the three avg_time is positive every
\* distance_ratio is avg_time divided by that sum and the three ratios sum
\* to 1 (averages of 30, 40, 30 give 0.3, 0.4, 0.3); when the sum is
\* missing or not positive all three ratios are None
C17_RatiosOfTotal ==
    (secpc = "done" /\ sector_summary # NoneValue) =>
        LET avg(s) == sector_summary[s].avg_time
            ratio(s) == sector_summary[s].distance_ratio
            total == FracAdd(avg("S1"), FracAdd(avg("S2"), avg("S3")))
        IN  IF FracPositive(total)
            THEN /\ \A s \in SectorNames :
                       /\ ratio(s) # NoneValue
                       /\ FracIsProduct(avg(s), ratio(s), total)
                 /\ FracAdd(ratio("S1"), FracAdd(ratio("S2"), ratio("S3")))
                        = [num |-> 1, den |-> 1]
                 /\ (avg("S1").num = 30 * avg("S1").den
                        /\ avg("S2").num = 40 * avg("S2").den
                        /\ avg("S3").num = 30 * avg("S3").den) =>
                       /\ ratio("S1") = [num |-> 3, den |-> 10]
                       /\ ratio("S2") = [num |-> 2, den |-> 5]
                       /\ ratio("S3") = [num |-> 3, den |-> 10]
            ELSE \A s \in SectorNames : ratio(s) = NoneValue

\* A summary with averages 30, 40, 30 and ratios 0.3, 0.4, 0.3
C17_Witness ==
    /\ secpc = "done"
    /\ sector_summary # NoneValue
    /\ sector_summary.S1.avg_time = [num |-> 30, den |-> 1]
    /\ sector_summary.S2.avg_time = [num |-> 40, den |-> 1]
    /\ sector_summary.S3.avg_time = [num |-> 30, den |-> 1]
    /\ sector_summary.S1.distance_ratio = [num |-> 3, den |-> 10]
    /\ sector_summary.S2.distance_ratio = [num |-> 2, den |-> 5]
    /\ sector_summary.S3.distance_ratio = [num |-> 3, den |-> 10]

\* Sector N has no column under any of its names s<N>_seconds, s<N>
Unresolved(N) ==
    CASE N = 1 -> sdf.columns \cap {"s1_seconds", "s1"} = {}
      [] N = 2 -> sdf.columns \cap {"s2_seconds", "s2"} = {}
      [] N = 3 -> sdf.columns \cap {"s3_seconds", "s3"} = {}

\* The rows of the table that belong to the requested track
RowsOfTrack == {k \in 1..Len(sdf.rows) : sdf.rows[k].track = track_name}

\* The numeric cells of column c in the rows of the requested track
CellsOfTrack(c) ==
    LET F[k \in 0..Len(sdf.rows)] ==
            IF k = 0 THEN <<>>
            ELSE IF k \in RowsOfTrack /\ sdf.rows[k][c] \notin {NaN, Unreadable}
                 THEN Append(F[k - 1], sdf.rows[k][c]) ELSE F[k - 1]
    IN  F[Len(sdf.rows)]

----------------------------------------------------------------------------
(* One call of either track detector                                       *)

DetectorInit == CornerInit \/ BrakingInit

DetectorNext == CornerNext \/ BrakingNext

DetectorSpec == DetectorInit /\ [][DetectorNext]_vars

\* Channel c has no value in any row of the frame
AbsentChannel(frame, c) == \A k \in 1..Len(frame) : isna(frame[k][c])

\* C18: when a required channel (speed, accy_can or steering_angle for the
\* corners, speed for the braking points) is absent from the frame for the
\* whole track, or the frame has no rows, detect_corners and
\* detect_braking_points return an empty sequence and raise nothing
C18_MissingSignalGivesEmpty ==
    /\ (pc = "done" /\ (df = <<>> \/ \E c \in {"speed", "accy_can", "steering_angle"} :
                                          AbsentChannel(df, c))) =>
           result = [kind |-> "returned", value |-> <<>>]
    /\ (bpc = "done" /\ (bdf = <<>> \/ AbsentChannel(bdf, "speed"))) =>
           bresult = [kind |-> "returned", value |-> <<>>]

\* detect_corners has returned for a track without speed whose steering
\* trace would make a corner under min_segment = 0
C18_Witness ==
    /\ pc = "done"
    /\ min_segment = 0
    /\ Len(df) = 3
    /\ AbsentChannel(df, "speed")
    /\ Angles(df) = <<8, 8, 0>>
    /\ LatGs(df) = <<0, 0, 0>>
    /\ result = [kind |-> "returned", value |-> <<>>]

----------------------------------------------------------------------------
(* Order and content of the Braking Events                                 *)

\* The 0-based rows of the frame that meet a clause, in row order
FiringRows(frame) ==
    LET F[k \in 0..(Len(frame) - 1)] ==
            IF k = 0 THEN <<>>
            ELSE IF SpeedClause(frame, k) \/ AccelClause(frame, k)
                       \/ PressureClause(frame, k)
                 THEN Append(F[k - 1], k) ELSE F[k - 1]
    IN  IF Len(frame) = 0 THEN <<>> ELSE F[Len(frame) - 1]

\* C20: the detector emits exactly one event per firing sample, in sample
\* order, without merging (k consecutive firing samples give k events),
\* and the event of sample i carries speed_before = the speed of sample
\* i-1 and speed_after = the speed of sample i
C20_OneEventPerFiringSample ==
    (bpc = "done" /\ bload = "frame") =>
        LET rows == FiringRows(bdf)
        IN  /\ Len(bresult.value) = Len(rows)
            /\ \A e \in 1..Len(rows) :
                  /\ bresult.value[e].timestamp = bdf[rows[e] + 1].timestamp
                  /\ bresult.value[e].speed_before = bdf[rows[e]].speed
                  /\ bresult.value[e].speed_after = bdf[rows[e] + 1].speed

\* Two consecutive samples have fired: a drop from 100 to 90, then a
\* deceleration of -0.3 at speed 100
C20_Witness ==
    /\ bpc = "done" /\ bload = "frame"
    /\ Column(bdf, "speed") = <<100, 90, 100>>
    /\ FiringRows(bdf) = <<1, 2>>
    /\ Len(bresult.value) = 2
    /\ bresult.value[1].speed_before = 100 /\ bresult.value[1].speed_after = 90
    /\ bresult.value[2].speed_before = 90 /\ bresult.value[2].speed_after = 100

(***************************************************************************)
(* Two tracks processed by interleaved invocations                         *)
(***************************************************************************)

MaxWorkerLen == 2

\* The invocations, and the track each one is called for
Workers == {1, 2}
WorkerTracks == <<"barber", "cota">>

\* The sector table of the one SectorDetector the invocations share
WorkerSectorCells == { <<30, 40, 30>>, <<32, 40, 28>> }

WorkerSectorTables ==
    { [columns |-> cols,
       rows |-> <<SectorRow(a[1], a[2]), SectorRow(b[1], b[2])>>] :
        a \in SectorTracks \X WorkerSectorCells,
        b \in SectorTracks \X WorkerSectorCells,
        cols \in { {"track", "s1_seconds", "s2_seconds", "s3_seconds"},
                   {"track", "s1_seconds", "s2"} } }

\* The telemetry stored for a track
WorkerCells == { <<100, 0, 0, 0>>, <<90, 0, 0, 0>>, <<NaN, -30, NaN, 6>> }

WorkerFrames ==
    { [k \in 1..Len(cs) |-> BrakeRow(k - 1, cs[k], BrakeChannels)] :
        cs \in SeqsUpTo(WorkerCells, MaxWorkerLen) }

\* What detect_sectors returns for a track of the loaded table
\* (lines 29-83)
detect_sectors(table, name) ==
    LET track_df == track_rows(table.rows, name)
        s1_series == get_numeric_col(track_df, table.columns, Aliases(1))
        s2_series == get_numeric_col(track_df, table.columns, Aliases(2))
        s3_series == get_numeric_col(track_df, table.columns, Aliases(3))
    IN  IF track_df = <<>> THEN NoneValue
        ELSE IF s1_series = NoneValue \/ s2_series = NoneValue
                  \/ s3_series = NoneValue THEN NoneValue
        ELSE sector_summary_of(s1_series, s2_series, s3_series)

\* What detect_braking_points returns for the telemetry of a track
\* (lines 61-106)
detect_braking_points(frame) ==
    LET d == WithSpeedDiff(frame)
        cols == BrakeColumns(frame)
        idx == [k \in 1..(Len(d) - 1) |-> k]
        rows == SelectSeq(idx, LAMBDA k :
                    Fires(iloc(d, k), "accx_can" \in cols, "pbrake_f" \in cols,
                          "pbrake_r" \in cols))
    IN  IF frame = <<>> \/ "speed" \notin cols THEN <<>>
        ELSE [n \in 1..Len(rows) |->
                 BrakingEvent(iloc(d, rows[n]), iloc(d, rows[n] - 1))]

\* Variant: every invocation keeps its frame in the same place
own_Shared(w) == 1

\* df, i and events are local variables of the invocation that assigns
\* them
own(w) == w

\* Two invocations are about to start, one per track, on one
\* SectorDetector whose table is loaded; the other components are not
\* running.
WorkerInit ==
    /\ sdf \in WorkerSectorTables
    /\ telemetry \in [Workers -> WorkerFrames]
    /\ wpc = [w \in Workers |-> "sectors"]
    /\ wsectors = [w \in Workers |-> NoneValue]
    /\ wdf = [w \in Workers |-> <<>>]
    /\ wi = [w \in Workers |-> 0]
    /\ wevents = [w \in Workers |-> <<>>]
    /\ wbraking = [w \in Workers |-> <<>>]
    /\ secpc = "idle" /\ track_name = None /\ sector_summary = None
    /\ pc = "idle" /\ load = None /\ df = <<>> /\ min_segment = 8 /\ i = 0
    /\ in_corner = FALSE /\ start_idx = None /\ corners = <<>> /\ result = None
    /\ bpc = "idle" /\ bload = None /\ bcols = {} /\ bdf = <<>> /\ bi = 0
    /\ events = <<>> /\ bresult = None
    /\ spc = "idle" /\ car_df = <<>> /\ pit_loss = None /\ model = None
    /\ res = <<>> /\ best = None
    /\ upc = "idle" /\ sectors_df = None /\ total_race_laps = 0 /\ ucar_df = <<>>
    /\ umodel = None /\ upit_loss = None /\ scenarios = None
    /\ run = 1 /\ first_result = None
    /\ build_pc = "idle" /\ track_i = 0 /\ sectors = None /\ track_corners = None
    /\ braking_points = None /\ metadata = <<>> /\ out_file = None
    /\ lpc = "idle" /\ ts_dtype = None /\ raw_df = <<>> /\ df_pivot = <<>>
    /\ loaded = None

\* Invocation w runs detect_sectors for its track (detect_sectors.py
\* lines 29-83): self.df is read, never assigned
WorkerSectors(w) ==
    /\ wpc[w] = "sectors"
    /\ wsectors' = [wsectors EXCEPT ![w] = detect_sectors(sdf, WorkerTracks[w])]
    /\ wpc' = [wpc EXCEPT ![w] = "load"]
    /\ UNCHANGED <<telemetry, wdf, wi, wevents, wbraking>>
    /\ UNCHANGED <<cornerVars, brakingVars, strategyVars, utilsVars, sectorVars, rerunVars, builderVars, loaderVars>>

\* Invocation w loads the telemetry of its track and has nothing to scan:
\* [] (detect_braking_points.py lines 68-74)
WorkerLoadEmpty(w) ==
    /\ wpc[w] = "load"
    /\ telemetry[w] = <<>> \/ "speed" \notin BrakeColumns(telemetry[w])
    /\ wdf' = [wdf EXCEPT ![own(w)] = telemetry[w]]
    /\ wbraking' = [wbraking EXCEPT ![w] = <<>>]
    /\ wpc' = [wpc EXCEPT ![w] = "done"]
    /\ UNCHANGED <<telemetry, wsectors, wi, wevents>>
    /\ UNCHANGED <<cornerVars, brakingVars, strategyVars, utilsVars, sectorVars, rerunVars, builderVars, loaderVars>>

\* Invocation w loads the telemetry of its track, adds speed_diff to its
\* frame and starts the loop (lines 68-88)
WorkerLoadFrame(w) ==
    /\ wpc[w] = "load"
    /\ telemetry[w] # <<>>
    /\ "speed" \in BrakeColumns(telemetry[w])
    /\ wdf' = [wdf EXCEPT ![own(w)] = WithSpeedDiff(telemetry[w])]
    /\ wevents' = [wevents EXCEPT ![own(w)] = <<>>]
    /\ wi' = [wi EXCEPT ![own(w)] = 1]
    /\ wpc' = [wpc EXCEPT ![w] = "loop"]
    /\ UNCHANGED <<telemetry, wsectors, wbraking>>
    /\ UNCHANGED <<cornerVars, brakingVars, strategyVars, utilsVars, sectorVars, rerunVars, builderVars, loaderVars>>

\* One iteration of the loop of invocation w (lines 88-104)
WorkerStep(w) ==
    /\ wpc[w] = "loop"
    /\ wi[own(w)] < Len(wdf[own(w)])
    /\ LET frame == wdf[own(w)]
           row == iloc(frame, wi[own(w)])
           prev == iloc(frame, wi[own(w)] - 1)
           cols == BrakeColumns(frame)
       IN  wevents' =
             [wevents EXCEPT ![own(w)] =
                 IF Fires(row, "accx_can" \in cols, "pbrake_f" \in cols,
                          "pbrake_r" \in cols)
                 THEN Append(@, BrakingEvent(row, prev))
                 ELSE @]
    /\ wi' = [wi EXCEPT ![own(w)] = @ + 1]
    /\ UNCHANGED <<telemetry, wpc, wsectors, wdf, wbraking>>
    /\ UNCHANGED <<cornerVars, brakingVars, strategyVars, utilsVars, sectorVars, rerunVars, builderVars, loaderVars>>

\* return events of invocation w (line 106)
WorkerReturn(w) ==
    /\ wpc[w] = "loop"
    /\ wi[own(w)] >= Len(wdf[own(w)])
    /\ wbraking' = [wbraking EXCEPT ![w] = wevents[own(w)]]
    /\ wpc' = [wpc EXCEPT ![w] = "done"]
    /\ UNCHANGED <<telemetry, wsectors, wdf, wi, wevents>>
    /\ UNCHANGED <<cornerVars, brakingVars, strategyVars, utilsVars, sectorVars, rerunVars, builderVars, loaderVars>>

WorkerNext ==
    \E w \in Workers :
        \/ WorkerSectors(w)
        \/ WorkerLoadEmpty(w)
        \/ WorkerLoadFrame(w)
        \/ WorkerStep(w)
        \/ WorkerReturn(w)

WorkerSpec == WorkerInit /\ [][WorkerNext]_vars

(***************************************************************************)
(* Invocations for different tracks do not interfere                       *)
(***************************************************************************)

\* C21: detections for different tracks share no mutable state: in every
\* interleaving each invocation returns for its track what it returns
\* when run alone, one after another, and no step of detect_sectors
\* changes the loaded sector table of the SectorDetector
C21_NoSharedMutableState ==
    [][ /\ sdf' = sdf
        /\ telemetry' = telemetry
        /\ \A w \in Workers :
              wpc'[w] = "done" =>
                 /\ wsectors'[w] = detect_sectors(sdf, WorkerTracks[w])
                 /\ wbraking'[w] = detect_braking_points(telemetry[w]) ]_vars

\* Both invocations have returned after running interleaved, each with
\* events of its own track, and one with a sector summary
C21_Witness ==
    /\ \A w \in Workers : wpc[w] = "done" /\ wbraking[w] # <<>>
    /\ wbraking[1] # wbraking[2]
    /\ wsectors[1] # NoneValue

(***************************************************************************)
(* TrackConfigBuilder.build                                                *)
(***************************************************************************)

\* TRACKS (builder.py lines 12-20)
TRACKS ==
    <<"sonoma", "indy", "cota", "road_america", "virginia", "barber", "sebring">>

\* min_segment when detect_corners is called with its defaults
default_min_segment == 8

\* What detect_corners returns for the aligned frame of a track
\* (lines 64-113): the state after the first k rows, folded over the frame
detect_corners(frame, minseg) ==
    LET S[k \in 0..Len(frame)] ==
            IF k = 0
            THEN [in_corner |-> FALSE, start_idx |-> 0, corners |-> <<>>]
            ELSE LET s == S[k - 1]
                     n == k - 1
                     angle == iloc(frame, n).steering_angle
                     lat_g == iloc(frame, n).accy_can
                     enter == ~s.in_corner /\ EntryGuard(angle, lat_g)
                     in1 == s.in_corner \/ enter
                     st1 == IF enter THEN n ELSE s.start_idx
                     leave == in1 /\ ExitGuard(angle, lat_g)
                 IN  IF Skipped(angle, lat_g) THEN s
                     ELSE [in_corner |-> in1 /\ ~leave,
                           start_idx |-> st1,
                           corners |-> IF leave /\ LongEnough(st1, n, minseg)
                                       THEN emit(s.corners, CornerRecord(frame, st1, n))
                                       ELSE s.corners]
    IN  IF frame = <<>> \/ ~(required \subseteq CornerColumns(frame)) THEN <<>>
        ELSE S[Len(frame)].corners

\* A lap of ten cornering rows between two straight-line rows
CornerLap ==
    [k \in 1..12 |->
        Row(100 + k, 2, k - 1, IF k \in 2..11 THEN <<8, 20>> ELSE <<0, 0>>)]

\* What is stored for one track: its rows of the sector table, the frame
\* the corner loader gives and the frame the braking loader gives.  A
\* track may have everything, no telemetry, or nothing.
TrackData ==
    { [laps |-> <<<<30, 40, 30>>, <<32, 40, 28>>>>, corner_frame |-> CornerLap,
       brake_frame |-> <<BrakeRow(0, <<100, 0, 0, 0>>, BrakeChannels),
                         BrakeRow(1, <<90, 0, 0, 0>>, BrakeChannels)>>],
      [laps |-> <<<<30, 40, 30>>>>, corner_frame |-> <<>>, brake_frame |-> <<>>],
      [laps |-> <<>>, corner_frame |-> <<>>, brake_frame |-> <<>>] }

\* The sector table holding the rows of the first n tracks
RECURSIVE SectorRowsOf(_, _)
SectorRowsOf(store, n) ==
    IF n = 0 THEN <<>>
    ELSE SectorRowsOf(store, n - 1) \o
         [k \in 1..Len(store[n].laps) |-> SectorRow(TRACKS[n], store[n].laps[k])]

\* Variant: the entry of a track carries no braking points
track_entry_NoBraking(s, c, b) == [sectors |-> s, corners |-> c]

\* The entry of a track (lines 57-61)
track_entry(s, c, b) == [sectors |-> s, corners |-> c, braking_points |-> b]

\* to_native (lines 23-38) rebuilds every dict and list around its
\* leaves; a leaf keeps its value and leaves numpy for the native type
to_native(obj) == [k \in DOMAIN obj |-> obj[k]]

\* build is entered on a constructed builder: the sector table is loaded
\* and every track has its data; the other components are not running.
BuilderInit ==
    /\ build_pc = "sectors"
    /\ track_i = 1
    /\ sectors = NoneValue
    /\ track_corners = <<>>
    /\ braking_points = <<>>
    /\ metadata = <<>>
    /\ out_file = <<>>
    /\ \E store \in [1..Len(TRACKS) -> TrackData] :
          /\ sdf = [columns |-> {"track", "s1_seconds", "s2_seconds", "s3_seconds"},
                    rows |-> SectorRowsOf(store, Len(TRACKS))]
          /\ telemetry = [n \in 1..Len(TRACKS) |->
                            [corner_frame |-> store[n].corner_frame,
                             brake_frame |-> store[n].brake_frame]]
    /\ secpc = "idle" /\ track_name = None /\ sector_summary = None
    /\ pc = "idle" /\ load = None /\ df = <<>> /\ min_segment = 8 /\ i = 0
    /\ in_corner = FALSE /\ start_idx = None /\ corners = <<>> /\ result = None
    /\ bpc = "idle" /\ bload = None /\ bcols = {} /\ bdf = <<>> /\ bi = 0
    /\ events = <<>> /\ bresult = None
    /\ spc = "idle" /\ car_df = <<>> /\ pit_loss = None /\ model = None
    /\ res = <<>> /\ best = None
    /\ upc = "idle" /\ sectors_df = None /\ total_race_laps = 0 /\ ucar_df = <<>>
    /\ umodel = None /\ upit_loss = None /\ scenarios = None
    /\ run = 1 /\ first_result = None
    /\ wpc = None /\ wsectors = None
    /\ wdf = None /\ wi = None /\ wevents = None /\ wbraking = None
    /\ lpc = "idle" /\ ts_dtype = None /\ raw_df = <<>> /\ df_pivot = <<>>
    /\ loaded = None

\* sectors = self.sector_detector.detect_sectors(track) (line 53)
BuildSectors ==
    /\ build_pc = "sectors"
    /\ sectors' = detect_sectors(sdf, TRACKS[track_i])
    /\ build_pc' = "corners"
    /\ UNCHANGED <<track_i, track_corners, braking_points, metadata, out_file>>
    /\ UNCHANGED <<cornerVars, brakingVars, strategyVars, utilsVars, sectorVars, rerunVars, workerVars, loaderVars>>

\* corners = self.corner_detector.detect_corners(track) (line 54)
BuildCorners ==
    /\ build_pc = "corners"
    /\ track_corners' = detect_corners(telemetry[track_i].corner_frame, default_min_segment)
    /\ build_pc' = "braking_points"
    /\ UNCHANGED <<track_i, sectors, braking_points, metadata, out_file>>
    /\ UNCHANGED <<cornerVars, brakingVars, strategyVars, utilsVars, sectorVars, rerunVars, workerVars, loaderVars>>

\* braking_points = self.brake_detector.detect_braking_points(track)
\* (line 55)
BuildBrakingPoints ==
    /\ build_pc = "braking_points"
    /\ braking_points' = detect_braking_points(telemetry[track_i].brake_frame)
    /\ build_pc' = "entry"
    /\ UNCHANGED <<track_i, sectors, track_corners, metadata, out_file>>
    /\ UNCHANGED <<cornerVars, brakingVars, strategyVars, utilsVars, sectorVars, rerunVars, workerVars, loaderVars>>

\* metadata[track] = {...} and the loop moves to the next track
\* (lines 50, 57-61)
BuildEntry ==
    /\ build_pc = "entry"
    /\ metadata' =
          [t \in DOMAIN metadata \cup {TRACKS[track_i]} |->
              IF t = TRACKS[track_i]
              THEN track_entry(sectors, track_corners, braking_points)
              ELSE metadata[t]]
    /\ IF track_i < Len(TRACKS)
       THEN track_i' = track_i + 1 /\ build_pc' = "sectors"
       ELSE track_i' = track_i /\ build_pc' = "save"
    /\ UNCHANGED <<sectors, track_corners, braking_points, out_file>>
    /\ UNCHANGED <<cornerVars, brakingVars, strategyVars, utilsVars, sectorVars, rerunVars, workerVars, loaderVars>>

\* The mapping is converted and written to track_metadata.json
\* (lines 63-72)
BuildSave ==
    /\ build_pc = "save"
    /\ out_file' = to_native(metadata)
    /\ build_pc' = "done"
    /\ UNCHANGED <<track_i, sectors, track_corners, braking_points, metadata>>
    /\ UNCHANGED <<cornerVars, brakingVars, strategyVars, utilsVars, sectorVars, rerunVars, workerVars, loaderVars>>

BuilderNext ==
    \/ BuildSectors
    \/ BuildCorners
    \/ BuildBrakingPoints
    \/ BuildEntry
    \/ BuildSave

BuilderSpec == BuilderInit /\ [][BuilderNext]_vars

(***************************************************************************)
(* Every track gets its entry                                              *)
(***************************************************************************)

TrackNames == {TRACKS[n] : n \in 1..Len(TRACKS)}

EntryKeys == {"sectors", "corners", "braking_points"}

\* C22: build processes every track of the configured list: whatever the
\* detectors returned for a track, its iteration ends by adding the entry
\* of that track, with the keys sectors, corners and braking_points, to
\* the entries of the tracks before it and moves on to the next track of
\* the list; when build ends the mapping has exactly one entry per track
C22_EveryTrackBuilt ==
    [][ /\ build_pc = "entry" =>
              /\ DOMAIN metadata' = {TRACKS[n] : n \in 1..track_i}
              /\ \A t \in DOMAIN metadata' : DOMAIN metadata'[t] = EntryKeys
              /\ \A t \in DOMAIN metadata : metadata'[t] = metadata[t]
              /\ IF track_i < Len(TRACKS)
                 THEN build_pc' = "sectors" /\ track_i' = track_i + 1
                 ELSE build_pc' = "save"
        /\ build_pc' = "done" =>
              /\ DOMAIN metadata' = TrackNames
              /\ DOMAIN out_file' = TrackNames
              /\ \A t \in TrackNames :
                    /\ DOMAIN metadata'[t] = EntryKeys
                    /\ out_file'[t] = metadata'[t] ]_vars

\* build has ended although the first track has no sector summary, no
\* corner and no braking point, and the last track has all three
C22_Witness ==
    /\ build_pc = "done"
    /\ metadata["sonoma"].sectors = NoneValue
    /\ metadata["sonoma"].corners = <<>>
    /\ metadata["sonoma"].braking_points = <<>>
    /\ metadata["sebring"].sectors # NoneValue
    /\ Len(metadata["sebring"].corners) = 1
    /\ Len(metadata["sebring"].braking_points) = 1

(***************************************************************************)
(* detect_corners called twice on the same frame                           *)
(***************************************************************************)

\* Variant: a call starts from what the call before it left behind
loop_start_Carried(last) == last

\* corners, in_corner and start_idx when the loop starts (lines 80-82),
\* whatever the locals of an earlier call ended as
loop_start(last) == [corners |-> <<>>, in_corner |-> FALSE, start_idx |-> None]

RerunInit == CornerInit

\* The first call has returned from its loop; detect_corners is called
\* again with the same thresholds and min_segment and segments the same
\* aligned frame (lines 80-84)
Rerun ==
    /\ pc = "done"
    /\ load = "frame"
    /\ run = 1
    /\ first_result' = result
    /\ run' = 2
    /\ LET start == loop_start([corners |-> corners, in_corner |-> in_corner,
                               start_idx |-> start_idx])
       IN  /\ corners' = start.corners
           /\ in_corner' = start.in_corner
           /\ start_idx' = start.start_idx
    /\ i' = 0
    /\ pc' = "loop"
    /\ UNCHANGED <<load, df, min_segment, result>>
    /\ UNCHANGED <<brakingVars, strategyVars, utilsVars, sectorVars, builderVars, workerVars, loaderVars>>

RerunNext ==
    \/ CornerNext
    \/ Rerun

RerunSpec == RerunInit /\ [][RerunNext]_vars

MaxRawRows == 3

\* The long-format rows the query gives for a track, in any order (the
\* query has no ORDER BY): one row per timestamp, lap, vehicle and signal
\* name, with the value logged or a missing value.  The timestamp column
\* holds numbers or datetimes; a datetime is its count of nanoseconds.
RawCells == {101, 102} \X {<<1, 7>>, <<2, 9>>} \X {"speed", "accy_can"} \X {10, NaN}

RawRow(c) ==
    [timestamp |-> c[1], lap |-> c[2][1], vehicle_number |-> c[2][2],
     telemetry_name_lower |-> c[3], telemetry_value |-> c[4]]

RawFrames ==
    { [k \in 1..Len(cs) |-> RawRow(cs[k])] : cs \in SeqsUpTo(RawCells, MaxRawRows) }

\* The index keys of the pivot (timestamp, lap, vehicle_number; track is
\* the same in every row of the files of one track)
IndexKey(r) == <<r.timestamp, r.lap, r.vehicle_number>>

KeyBefore(a, b) ==
    \/ a[1] < b[1]
    \/ a[1] = b[1] /\ a[2] < b[2]
    \/ a[1] = b[1] /\ a[2] = b[2] /\ a[3] < b[3]

\* aggfunc="mean" over the values of one key and one signal
PivotCell(raw, key, name) ==
    SeriesMean(Column(SelectSeq(raw, LAMBDA r : IndexKey(r) = key
                                         /\ r.telemetry_name_lower = name),
                      "telemetry_value"))

\* pivot_table(...).reset_index() (lines 45-50): one row per index key
\* that has a value, in the order of the keys
pivot_table(raw) ==
    LET names == {raw[k].telemetry_name_lower : k \in 1..Len(raw)}
        keys == { key \in {IndexKey(raw[k]) : k \in 1..Len(raw)} :
                    \E n \in names : PivotCell(raw, key, n) # FracNaN }
        order == CHOOSE s \in [1..Cardinality(keys) -> keys] :
                    \A j, k \in 1..Cardinality(keys) : j < k => KeyBefore(s[j], s[k])
    IN  [k \in 1..Cardinality(keys) |->
            [timestamp |-> order[k][1], lap |-> order[k][2],
             vehicle_number |-> order[k][3],
             values |-> [n \in names |-> PivotCell(raw, order[k], n)]]]

\* astype("int64") / 1e9 for a datetime column (lines 52-54); a numeric
\* column is left as it is
epoch_seconds(t, dtype) ==
    IF dtype = "datetime64" THEN [num |-> t, den |-> 1000000000]
    ELSE [num |-> t, den |-> 1]

\* a <= b for two timestamps of the frame
ts_le(a, b) ==
    IF a.den = b.den THEN a.num <= b.num ELSE a.num * b.den <= b.num * a.den

\* Variant: the frame is sorted with the latest row first
in_order_Descending(a, b) == ts_le(b.timestamp, a.timestamp)

\* Row a may stand before row b after sort_values("timestamp"), which is
\* ascending (line 61)
in_order(a, b) == ts_le(a.timestamp, b.timestamp)

\* _load_track_telemetry is entered for a track whose telemetry is
\* stored; the other components are not running.
LoaderInit ==
    /\ lpc = "query"
    /\ ts_dtype \in {"float64", "datetime64"}
    /\ raw_df \in RawFrames
    /\ df_pivot = <<>>
    /\ loaded = None
    /\ pc = "idle" /\ load = None /\ df = <<>> /\ min_segment = 8 /\ i = 0
    /\ in_corner = FALSE /\ start_idx = None /\ corners = <<>> /\ result = None
    /\ bpc = "idle" /\ bload = None /\ bcols = {} /\ bdf = <<>> /\ bi = 0
    /\ events = <<>> /\ bresult = None
    /\ spc = "idle" /\ car_df = <<>> /\ pit_loss = None /\ model = None
    /\ res = <<>> /\ best = None
    /\ upc = "idle" /\ sectors_df = None /\ total_race_laps = 0 /\ ucar_df = <<>>
    /\ umodel = None /\ upit_loss = None /\ scenarios = None
    /\ secpc = "idle" /\ sdf = None /\ track_name = None /\ sector_summary = None
    /\ run = 1 /\ first_result = None
    /\ build_pc = "idle" /\ track_i = 0 /\ sectors = None /\ track_corners = None
    /\ braking_points = None /\ metadata = <<>> /\ out_file = None
    /\ telemetry = None /\ wpc = None /\ wsectors = None
    /\ wdf = None /\ wi = None /\ wevents = None /\ wbraking = None

\* duckdb.query raised: an empty DataFrame is returned (lines 35-39)
LoaderQueryError ==
    /\ lpc = "query"
    /\ loaded' = <<>>
    /\ lpc' = "returned"
    /\ UNCHANGED <<ts_dtype, raw_df, df_pivot>>
    /\ UNCHANGED <<cornerVars, brakingVars, strategyVars, utilsVars, sectorVars, rerunVars, builderVars, workerVars>>

\* The query gave no row: df is returned as it is (lines 41-42)
LoaderNoRows ==
    /\ lpc = "query"
    /\ raw_df = <<>>
    /\ loaded' = raw_df
    /\ lpc' = "returned"
    /\ UNCHANGED <<ts_dtype, raw_df, df_pivot>>
    /\ UNCHANGED <<cornerVars, brakingVars, strategyVars, utilsVars, sectorVars, rerunVars, builderVars, workerVars>>

\* The rows are pivoted to one row per timestamp, lap and vehicle, and
\* the timestamps are made numeric (lines 44-59)
LoaderPivot ==
    /\ lpc = "query"
    /\ raw_df # <<>>
    /\ LET wide == pivot_table(raw_df)
       IN  df_pivot' =
             [k \in 1..Len(wide) |->
                 [timestamp |-> epoch_seconds(wide[k].timestamp, ts_dtype),
                  lap |-> wide[k].lap,
                  vehicle_number |-> wide[k].vehicle_number,
                  values |-> wide[k].values]]
    /\ lpc' = "pivoted"
    /\ UNCHANGED <<ts_dtype, raw_df, loaded>>
    /\ UNCHANGED <<cornerVars, brakingVars, strategyVars, utilsVars, sectorVars, rerunVars, builderVars, workerVars>>

\* df_pivot.sort_values("timestamp") is returned (lines 61-62); the sort
\* is not a stable one, so rows of one timestamp come in any order
LoaderSort ==
    /\ lpc = "pivoted"
    /\ \E order \in [1..Len(df_pivot) -> 1..Len(df_pivot)] :
          /\ \A j, k \in 1..Len(df_pivot) : j # k => order[j] # order[k]
          /\ \A j, k \in 1..Len(df_pivot) :
                j < k => in_order(df_pivot[order[j]], df_pivot[order[k]])
          /\ loaded' = [k \in 1..Len(df_pivot) |-> df_pivot[order[k]]]
    /\ lpc' = "returned"
    /\ UNCHANGED <<ts_dtype, raw_df, df_pivot>>
    /\ UNCHANGED <<cornerVars, brakingVars, strategyVars, utilsVars, sectorVars, rerunVars, builderVars, workerVars>>

LoaderNext ==
    \/ LoaderQueryError
    \/ LoaderNoRows
    \/ LoaderPivot
    \/ LoaderSort

LoaderSpec == LoaderInit /\ [][LoaderNext]_vars

\* C24: the aligned frame a telemetry loader returns has its rows in
\* non-decreasing timestamp order, so that the timestamps are
\* non-decreasing within every (lap, vehicle) group of it
C24_RowsInTimestampOrder ==
    lpc = "returned" =>
        /\ \A j, k \in 1..Len(loaded) :
              j < k => ts_le(loaded[j].timestamp, loaded[k].timestamp)
        /\ \A j, k \in 1..Len(loaded) :
              (/\ j < k
               /\ loaded[j].lap = loaded[k].lap
               /\ loaded[j].vehicle_number = loaded[k].vehicle_number)
                 => ts_le(loaded[j].timestamp, loaded[k].timestamp)

\* A frame of three rows has been returned for telemetry whose rows came
\* latest first, with two of the rows in one (lap, vehicle) group
C24_Witness ==
    /\ lpc = "returned"
    /\ Len(raw_df) = 3
    /\ raw_df[1].timestamp > raw_df[3].timestamp
    /\ Len(loaded) = 3
    /\ loaded[1].lap = loaded[3].lap
    /\ loaded[1].timestamp # loaded[3].timestamp

(***************************************************************************)
(* The fields of a Corner Record                                           *)
(***************************************************************************)

\* C25: a Corner Record opened at index start and closed at index end is
\* computed over the rows start..end-1, the closing sample left out:
\* start_time and end_time are the minimum and the maximum timestamp of
\* these rows, min_speed their minimum speed, max_lateral_g their maximum
\* |lateral g|, entry_speed the speed of row start, exit_speed the speed
\* of row end-1 and lap the lap of row start
C25_FieldsOverOpenSegment ==
    [][ (Len(corners') = Len(corners) + 1) =>
          LET r == corners'[Len(corners')]
              rows == start_idx..(i - 1)
              T == {iloc(df, k).timestamp : k \in rows}
              V == {iloc(df, k).speed : k \in rows} \ {NaN}
              G == {abs(iloc(df, k).accy_can) :
                       k \in {n \in rows : iloc(df, n).accy_can # NaN}}
          IN  /\ r.start_time = SetMin(T)
              /\ r.end_time = SetMax(T)
              /\ r.min_speed = SetMin(V)
              /\ r.max_lateral_g = SetMax(G)
              /\ r.entry_speed = iloc(df, start_idx).speed
              /\ r.exit_speed = iloc(df, i - 1).speed
              /\ r.lap = iloc(df, start_idx).lap
      ]_vars

\* A record has just been emitted whose closing sample is slower than
\* every row of the segment and later than its end_time
C25_Witness ==
    /\ pc = "loop" /\ i >= 1 /\ ~in_corner
    /\ Len(corners) = 1
    /\ ExitGuard(iloc(df, i - 1).steering_angle, iloc(df, i - 1).accy_can)
    /\ iloc(df, i - 1).speed < corners[1].min_speed
    /\ iloc(df, i - 1).timestamp > corners[1].end_time
    /\ corners[1].exit_speed # corners[1].entry_speed
    /\ corners[1].max_lateral_g = 20

(***************************************************************************)
(* The rows of build_pit_scenarios                                         *)
(***************************************************************************)

\* The rows of the table with the given type and lap
RowsOf(kind, stop_lap, lap) ==
    {r \in 1..Len(scenarios) :
        /\ scenarios[r].type = [kind |-> kind, stop_lap |-> stop_lap]
        /\ scenarios[r].lap = lap}

\* C26: build_pit_scenarios gives, for every stop lap k of
\* 2..total_race_laps-2 and for the baseline, exactly one row per race
\* lap 1..total_race_laps and no other row; in pit@k the lap time is
\* a + b*lap up to lap k and a + b*(lap - k) after it, with pit_loss added
\* on lap k only; in the baseline it is a + b*lap on every lap
C26_ScenarioRows ==
    (upc = "done" /\ Len(ucar_df) >= min_rows_utils /\ umodel # NoModel) =>
        LET T == total_race_laps
            stops == 2..(T - 2)
            an == umodel.an
            bn == umodel.bn
            d == umodel.d
        IN  /\ Len(scenarios) = (Cardinality(stops) + 1) * T
            /\ \A k \in stops, lap \in 1..T :
                  /\ Cardinality(RowsOf("pit@", k, lap)) = 1
                  /\ \A r \in RowsOf("pit@", k, lap) :
                        /\ scenarios[r].time_s.den = d
                        /\ scenarios[r].time_s.num =
                              IF lap < k THEN an + bn * lap
                              ELSE IF lap = k THEN an + bn * lap + upit_loss * d
                              ELSE an + bn * (lap - k)
            /\ \A lap \in 1..T :
                  /\ Cardinality(RowsOf("baseline", 0, lap)) = 1
                  /\ \A r \in RowsOf("baseline", 0, lap) :
                        /\ scenarios[r].time_s.den = d
                        /\ scenarios[r].time_s.num = an + bn * lap

\* The table of a race of 5 laps has been built, with the stop laps 2 and
\* 3, for a car whose laps get slower and whose pit stop costs time
C26_Witness ==
    /\ upc = "done"
    /\ total_race_laps = 5
    /\ Len(scenarios) = 15
    /\ umodel.bn > 0
    /\ upit_loss > 0

(***************************************************************************)
(* The output of the Corner Segmenter only grows                           *)
(***************************************************************************)

\* The rows of the frame are one second apart, row k (0-based) at 101 + k
UnitSteps(frame) == \A k \in 1..Len(frame) : frame[k].timestamp = 100 + k

\* In such a frame: the index at which a record was opened, and the index
\* of the sample that closed it
StartIndexOf(rec) == rec.start_time - 101

ClosingIndexOf(rec) == rec.end_time - 100

\* C27: the segmenter only appends to its output, in one pass from left
\* to right: a step leaves the output as it is or adds one record at its
\* end, an emitted record is never changed or removed, the loop index
\* only advances, the records are in increasing order of start index, and
\* the start index of a record is strictly greater than the closing index
\* of the record before it
C27_AppendOnlyDisjointSpans ==
    [][ (pc = "loop") =>
          /\ Len(corners') >= Len(corners)
          /\ Len(corners') <= Len(corners) + 1
          /\ SubSeq(corners', 1, Len(corners)) = corners
          /\ (corners' # corners) => i' = i + 1
          /\ i' >= i
          /\ (pc' = "done") => result'.value = corners
          /\ (Len(corners') = Len(corners) + 1 /\ UnitSteps(df)) =>
                LET new == corners'[Len(corners')]
                IN  /\ StartIndexOf(new) = start_idx
                    /\ ClosingIndexOf(new) = i
                    /\ \A k \in 1..Len(corners) :
                          /\ StartIndexOf(corners[k]) < StartIndexOf(new)
                          /\ ClosingIndexOf(corners[k]) < StartIndexOf(new)
      ]_vars

\* Two records have been emitted, the second opened by the sample right
\* after the one that closed the first
C27_Witness ==
    /\ pc = "done"
    /\ UnitSteps(df)
    /\ Len(corners) = 2
    /\ StartIndexOf(corners[2]) = ClosingIndexOf(corners[1]) + 1

(***************************************************************************)
(* An interval still open at the end of the stream                         *)
(***************************************************************************)

\* C28: a Corner Record is emitted only by a sample that takes the
\* segmenter from InCorner to Outside; the end of the stream closes
\* nothing: the return adds no record, so an interval still open after
\* the last sample gives no record, however long it is
C28_OpenIntervalGivesNoRecord ==
    [][ /\ (corners' # corners) => (AtSample /\ in_corner /\ ~in_corner')
        /\ (pc = "loop" /\ pc' = "done") =>
              /\ corners' = corners
              /\ in_corner' = in_corner
              /\ result'.value = corners
              /\ (in_corner /\ UnitSteps(df)) =>
                    \A k \in 1..Len(result'.value) :
                       ClosingIndexOf(result'.value[k]) < start_idx
      ]_vars

\* detect_corners has returned no record for a frame whose interval,
\* opened by the first sample and longer than min_segment, was still open
\* after the last one
C28_Witness ==
    /\ pc = "done" /\ load = "frame"
    /\ in_corner
    /\ start_idx = 0
    /\ Len(df) - start_idx > min_segment + 1
    /\ result.value = <<>>

(***************************************************************************)
(* The pit loss and the best strategy of the page                          *)
(***************************************************************************)

\* The pit loss estimated for a cleaned lap table is strictly positive
PitLossPositive == (spc' = "estimated") => pit_loss' > 0

\* C29 as stated: for every cleaned lap table the pit loss is strictly
\* positive, so the totals of simulate strictly increase with the stop
\* count and the best strategy of the page is "0 Stop(s)"
C29_BestIsAlwaysZeroStops ==
    [][ /\ PitLossPositive
        /\ (spc = "fitted") =>
              /\ spc' = "done"
              /\ \A k \in 1..(Len(res') - 1) :
                    res'[k].total_time_s.num < res'[k + 1].total_time_s.num
              /\ best'.Strategy = 0
      ]_vars

(***************************************************************************)
(* The lap times of a cleaned table                                        *)
(***************************************************************************)

\* C30 as stated: every lap of the table clean_laps returns, the filler
\* laps included, has a lap time strictly between 20 s and 300 s
C30_AllLapTimesPlausible ==
    (spc \in {"cleaned", "estimated", "fitted", "done"}) =>
        \A k \in 1..Len(car_df) :
           /\ car_df[k].lap_time_s > min_lap_time
           /\ car_df[k].lap_time_s < max_lap_time

====
